---- MODULE Spec2Model ----
(***************************************************************************)
(* ETL / sync / snapshot subsystem of the remote-jobs platform.            *)
(*                                                                         *)
(*   Source Store    : the SQLite table  jobs          (sqlite_jobs)       *)
(*   Secondary Store : the MongoDB collection jobs     (mongo_jobs)        *)
(*                     and the unique index on source_url (unique_index)   *)
(*   Sync Engine     : ETLPipeline.sync_sqlite_to_mongodb, one run per     *)
(*                     caller (the scheduler's daily and hourly jobs); a   *)
(*                     run gives up the event loop at every await, so the  *)
(*                     steps of two runs interleave between find_one and   *)
(*                     insert_one / update_one.                            *)
(*                                                                         *)
(*   Cold Store      : DataLakeManager's objects / files  (lake)           *)
(*   Analytics       : the MongoDB collection analytics   (analytics)      *)
(*   Snapshots       : the MongoDB collection job_snapshots (job_snapshots)*)
(*   Cleanup         : ETLPipeline.cleanup_old_data, two delete_many with  *)
(*                     an await between them (cleanup)                     *)
(*   Scheduler       : TaskScheduler over an AsyncIOScheduler, which is    *)
(*                     modelled by its documented contract: add_job with   *)
(*                     replace_existing, job.modify, start / shutdown, one *)
(*                     instance per job id, coroutine jobs run as tasks of *)
(*                     the event loop.  Time is in hours from a Monday     *)
(*                     00:00.  What a job body's ETL call does to the      *)
(*                     stores is modelled by the actions above; here the   *)
(*                     call is its start and its return or exception.      *)
(*   Salary stats    : ETLPipeline._calculate_salary_stats, a pure         *)
(*                     function applied to drawn job lists (stat_jobs)     *)
(*                                                                         *)
(* MongoDB's background TTL monitor (the expireAfterSeconds index) is not  *)
(* an operation of this program and is not modelled.                       *)
(***************************************************************************)
EXTENDS Integers, Sequences, FiniteSets, TLC

\* ------------------------------------------------------------------ bounds
MaxSrcOps == 3   \* writes to Source Store in one behaviour
MaxRuns   == 2   \* sync runs started in one behaviour
MaxClock  == 3   \* seconds the wall clock advances in one behaviour
MaxCalls  == 2   \* Cold Store / analytics calls in one behaviour
DayLen    == 2   \* seconds in a day: the HHMMSS of a file name wraps every DayLen
MaxJobs   == 2   \* jobs in a list handed to _calculate_salary_stats
MaxHour   == 5   \* hours the scheduler's clock advances in one behaviour
MaxApi    == 3   \* start / stop / trigger_job calls in one behaviour
MaxTicks  == 1   \* times the date advances in one behaviour
MaxFiles  == 2   \* snapshot keys stored by calendar date
\* scheduler/job_scheduler.py:205 and :233
CleanupDays == 30
InactiveDays == 14
DaysOld == 30

Urls     == {"A", "B"}
None     == "None"
OldTitle == "t1"   \* the title a row is inserted with
NewTitle == "t2"   \* the title a re-scrape changes it to
Procs    == {"daily_sync", "hourly_sync"}
\* tasks/scheduler.py:89 (the default, etl_pipeline.py:24) and :125
CallerBatch == [daily_sync |-> 100, hourly_sync |-> 50]
\* batch_size: 100 is the default (etl_pipeline.py:24); 2 splits three rows in two batches
BatchSizes == {2, 100}

Min(a, b) == IF a <= b THEN a ELSE b

VARIABLES
  sqlite_jobs,   \* Source Store: sequence of rows, in rowid order
  mongo_jobs,    \* Secondary Store jobs collection, in insertion order
  unique_index,  \* the unique index on jobs.source_url exists
  mongo_up,      \* the Secondary Store is reachable
  now,           \* the clock read by datetime.utcnow(): later in every later run
  srcOps,        \* writes to Source Store so far
  run,           \* per caller: the locals of its sync_sqlite_to_mongodb call
  obs,           \* per caller: history of its current / last run (ghost)
  settled,       \* the last run to return was undisturbed and Source Store
                 \* has not changed since it read it (ghost)
  clock,         \* the wall clock, in seconds
  storage_type,  \* DataLakeManager.storage_type: "s3" or "local"
  lake,          \* Cold Store: the objects / files, each with its write time
  retrieved,     \* what the last retrieve_daily_snapshot returned
  analytics,     \* Secondary Store analytics collection, in insertion order
  calls,         \* Cold Store / analytics calls so far
  last_written,  \* per (data_type, day): the snapshot stored last (ghost)
  stat_jobs,     \* the job list handed to _calculate_salary_stats
  salary_stats,  \* what _calculate_salary_stats returned for stat_jobs
  job_snapshots, \* Secondary Store job_snapshots collection, in insertion order
  cleanup,       \* the locals of the cleanup_old_data call in progress
  is_running,    \* TaskScheduler.is_running
  sched_state,   \* the AsyncIOScheduler's state: "stopped" or "running"
  sched_jobs,    \* the AsyncIOScheduler's job store, in insertion order
  bodies,        \* ids of the job bodies started and not yet finished
  hour,          \* the scheduler's clock, in hours
  api,           \* the last start / stop / trigger_job call and its result
  hist,          \* what the job bodies did so far (ghost)
  jobs_table,    \* Source Store as the scraper scripts see it: the rows of jobs
  job_results,   \* the job_results/*.json file the last scraper run saved: the
                 \* fields of its jobs that import_jobs_from_json reads
  scrape,        \* the locals of the scraper or import run in progress
  dedup,         \* a job list and what each deduplication makes of it
  db_jobs,       \* Source Store as JobScheduler sees it: the rows of Job
  daily,         \* the locals of the run_daily_update call in progress
  today,         \* the date, in days
  ticks,         \* how often the date was advanced
  save,          \* the last call that saved a batch of jobs, and its result
  partitions,    \* Cold Store by calendar date: the snapshot keys stored
  listed,        \* the last list_snapshots call and what it returned
  life           \* the position of lifespan(app) and what it did so far

syncVars == <<sqlite_jobs, mongo_jobs, unique_index, mongo_up, now, srcOps, run, obs,
              settled>>
lakeVars == <<clock, storage_type, lake, retrieved, analytics, calls, last_written>>
statVars == <<stat_jobs, salary_stats>>
cleanVars == <<job_snapshots, cleanup>>
schedVars == <<is_running, sched_state, sched_jobs, bodies, hour, api, hist>>
scrapeVars == <<jobs_table, job_results, scrape, dedup>>
dailyVars == <<db_jobs, daily, today, ticks>>
saveVars == <<save>>
listVars == <<partitions, listed>>
lifeVars == <<life>>
extraVars == <<listVars, lifeVars>>
moreVars == <<dailyVars, saveVars, extraVars>>
restVars == <<statVars, cleanVars, schedVars, scrapeVars, moreVars>>
etlVars == <<syncVars, lakeVars, statVars, cleanVars, scrapeVars, moreVars>>
etlBase == <<syncVars, lakeVars, statVars, cleanVars>>
coreVars == <<etlBase, schedVars, scrapeVars, dailyVars, saveVars, lifeVars>>
lifeRest == <<etlBase, scrapeVars, dailyVars, saveVars, listVars>>
vars == <<syncVars, lakeVars, restVars>>

\* ------------------------------------------------------------ Source Store
\* models/job.py: source_url is nullable, title is not.
Row(u, t, a, r) == [source_url |-> u, title |-> t, is_active |-> a, remote_type |-> r]

\* etl_pipeline.py:30-36  select(SQLiteJob).where(is_active == True, remote_type == "remote")
RECURSIVE SelectActiveRemote(_)
SelectActiveRemote(rows) ==
  IF rows = <<>> THEN <<>>
  ELSE LET rest == SelectActiveRemote(Tail(rows))
       IN IF Head(rows).is_active /\ Head(rows).remote_type = "remote"
            THEN <<Head(rows)>> \o rest
            ELSE rest

\* ------------------------------------------------------- Secondary Store
\* mongodb_models.py JobDocument: source_url is a required str, so a row whose
\* source_url is NULL fails validation (pydantic raises).
Convertible(row) == row.source_url # None

\* etl_pipeline.py:209-244: field-for-field copy, plus metadata.sync_date = utcnow()
convert_sqlite_to_mongodb(row, t) ==
  [source_url |-> row.source_url, title |-> row.title,
   is_active |-> row.is_active, sync_date |-> t]

Positions(docs, u) == {n \in 1..Len(docs) : docs[n].source_url = u}
FirstPos(docs, u) == CHOOSE n \in Positions(docs, u) : \A m \in Positions(docs, u) : n <= m

\* collection.find_one({"source_url": u}) is truthy
find_one(docs, u) == Positions(docs, u) # {}

\* mutants of update_one: the write adds a document / the write sets nothing
update_one_appends(docs, u, doc) == Append(docs, doc)
update_one_sets_nothing(docs, u, doc) == docs

\* collection.update_one({"source_url": u}, {"$set": doc minus _id}): the first
\* match gets every field of doc; no match changes nothing.
update_one(docs, u, doc) ==
  IF Positions(docs, u) = {} THEN docs
  ELSE [docs EXCEPT ![FirstPos(docs, u)] = doc]

\* collection.insert_one(doc) raises DuplicateKeyError under the unique index
InsertRejected(docs, idx, doc) == idx /\ Positions(docs, doc.source_url) # {}
insert_one(docs, doc) == Append(docs, doc)

\* mutant of create_indexes: the unique index is never built
create_indexes_no_unique(idx) == idx

\* mongodb.py:42-88 _create_indexes, line 65: create_index("source_url", unique=True)
create_indexes(idx) == TRUE

\* ------------------------------------------------------------- Cold Store
StorageTypes == {"s3", "local"}    \* 'minio' takes the same branches as 's3'
DataTypes == {"jobs", "companies"}
Payloads  == {"d1", "d2"}          \* the record lists handed to store_daily_snapshot
Days      == 0..(MaxClock \div DayLen)
NoDate    == -1                    \* target_date = None
NoSnapshot == [none |-> TRUE]      \* retrieve_daily_snapshot's None

\* date.today() and datetime.now().strftime("%H%M%S") of the wall clock
Today(c)     == c \div DayLen
TimeOfDay(c) == c % DayLen

\* data_lake.py:82-91 _get_daily_path: "{data_type}/year=Y/month=MM/day=DD"
get_daily_path(data_type, target_date, c) ==
  [data_type |-> data_type, day |-> IF target_date = NoDate THEN Today(c) ELSE target_date]

\* data_lake.py:101-103: "{daily_path}/{data_type}_snapshot_{HHMMSS}.json.gz"
SnapshotKey(data_type, target_date, c) ==
  [path |-> get_daily_path(data_type, target_date, c),
   stem |-> "snapshot", suffix |-> TimeOfDay(c), ext |-> "json.gz"]

\* data_lake.py:191-194: "{daily_path}/{metric_type}_{HHMMSS}.json" under "analytics"
AnalyticsKey(metric_type, target_date, c) ==
  [path |-> get_daily_path("analytics", target_date, c),
   stem |-> metric_type, suffix |-> TimeOfDay(c), ext |-> "json"]

\* data_lake.py:106-112
SnapshotData(data_type, data, target_date, c) ==
  [snapshot_date |-> IF target_date = NoDate THEN Today(c) ELSE target_date,
   created_at |-> c, data_type |-> data_type, data |-> data]

\* data_lake.py:196-201
AnalyticsData(metric_type, data, target_date, c) ==
  [metric_type |-> metric_type,
   date |-> IF target_date = NoDate THEN Today(c) ELSE target_date,
   created_at |-> c, data |-> data]

\* data_lake.py:115-116 gzip.compress(json.dumps(..)) and 178-179 back;
\* gzip.decompress raises on bytes that are not gzip
Compress(x) == [gzip |-> x]
IsGzip(b) == "gzip" \in DOMAIN b
Decompress(b) == b.gzip

\* data_lake.py:118-129: put_object / write_bytes replace what the key held;
\* the store stamps the object with the time of the write
PutObject(files, key, body, c) ==
  {f \in files : f.key # key} \cup {[key |-> key, body |-> body, mtime |-> c]}

\* data_lake.py:145-150 list_objects_v2(Prefix=daily_path) /
\* data_lake.py:165-170 glob("{data_type}_snapshot_*.json.gz")
Listing(files, st, path) ==
  IF st = "s3" THEN {f \in files : f.key.path = path}
  ELSE {f \in files : f.key.path = path /\ f.key.stem = "snapshot" /\ f.key.ext = "json.gz"}

\* mutant of Latest: the most recent file is taken to be the one whose name sorts last
LatestByName(fs) == CHOOSE f \in fs : \A g \in fs : g.key.suffix <= f.key.suffix

\* data_lake.py:156 / 174: max(..., key=LastModified / st_mtime)
Latest(fs) == CHOOSE f \in fs : \A g \in fs : g.mtime <= f.mtime

\* data_lake.py:138-183
retrieve_daily_snapshot(files, st, data_type, target_date) ==
  LET fs == Listing(files, st, get_daily_path(data_type, target_date, 0))
  IN IF fs = {} THEN NoSnapshot
     ELSE IF ~IsGzip(Latest(fs).body) THEN NoSnapshot
     ELSE Decompress(Latest(fs).body)

\* etl_pipeline.py:145-157: the metrics computed over the active JobDocuments
Metrics(docs) ==
  [total_jobs |-> Cardinality({n \in 1..Len(docs) : docs[n].is_active})]

\* mongodb_models.py:78-83 AnalyticsMetric: date defaults to datetime.utcnow()
AnalyticsMetric(metric_type, data, c) ==
  [date |-> c, metric_type |-> metric_type, data |-> data]

\* ----------------------------------------------------- snapshots, cleanup
\* mongodb_models.py:62-71 JobSnapshot: snapshot_date defaults to datetime.utcnow()
JobSnapshot(job_id, c) == [job_id |-> job_id, snapshot_date |-> c]

\* etl_pipeline.py:98-104: find({"is_active": True}), in collection order
RECURSIVE ActiveDocs(_)
ActiveDocs(docs) ==
  IF docs = <<>> THEN <<>>
  ELSE (IF Head(docs).is_active THEN <<Head(docs)>> ELSE <<>>) \o ActiveDocs(Tail(docs))

\* etl_pipeline.py:116-127: one JobSnapshot per job of the snapshot
RECURSIVE JobSnapshots(_, _)
JobSnapshots(jobs_data, c) ==
  IF jobs_data = <<>> THEN <<>>
  ELSE <<JobSnapshot(Head(jobs_data).source_url, c)>> \o JobSnapshots(Tail(jobs_data), c)

\* etl_pipeline.py:187  datetime.utcnow() - timedelta(days=days_to_keep)
CutoffDate(c, days_to_keep) == c - days_to_keep * DayLen

\* mutant of Older: the document dated exactly at the cutoff goes too
OlderOrAt(date, cutoff) == date <= cutoff

\* etl_pipeline.py:191-193, 199-201  {"$lt": cutoff_date}
Older(date, cutoff) == date < cutoff

\* delete_many({"snapshot_date": {"$lt": cutoff}}): what stays
RECURSIVE KeepSnapshots(_, _)
KeepSnapshots(docs, cutoff) ==
  IF docs = <<>> THEN <<>>
  ELSE (IF Older(Head(docs).snapshot_date, cutoff) THEN <<>> ELSE <<Head(docs)>>)
         \o KeepSnapshots(Tail(docs), cutoff)

\* delete_many({"date": {"$lt": cutoff}}): what stays
RECURSIVE KeepAnalytics(_, _)
KeepAnalytics(docs, cutoff) ==
  IF docs = <<>> THEN <<>>
  ELSE (IF Older(Head(docs).date, cutoff) THEN <<>> ELSE <<Head(docs)>>)
         \o KeepAnalytics(Tail(docs), cutoff)

DaysToKeep  == {0, 1}
\* deleted: result.deleted_count of the two delete_many, as logged;
\* kept: the job snapshots the first delete_many left (ghost)
IdleCleanup == [pc |-> "idle", cutoff_date |-> 0, days_to_keep |-> 0, result |-> "none",
                deleted |-> 0, kept |-> 0]

\* --------------------------------------------------------------- scheduler
\* tasks/scheduler.py:39-81: the ids, in the order _setup_jobs adds them
JobOrder == <<"daily_sync", "daily_snapshot", "daily_analytics", "weekly_cleanup",
              "hourly_sync">>
JobIds == {JobOrder[n] : n \in 1..Len(JobOrder)}
\* an id no add_job call of _setup_jobs uses
UnknownId == "no_such_job"

\* tasks/scheduler.py:41, 50, 59, 68, 77: the CronTriggers (minute=0);
\* day_of_week counts from Monday = 0
Cron == [daily_sync      |-> [hours |-> {2}, days |-> 0..6],
         daily_snapshot  |-> [hours |-> {3}, days |-> 0..6],
         daily_analytics |-> [hours |-> {4}, days |-> 0..6],
         weekly_cleanup  |-> [hours |-> {1}, days |-> {6}],
         hourly_sync     |-> [hours |-> 9..18, days |-> 0..4]]

DayOf(h) == h \div 24
Fires(tr, h) == (h % 24) \in tr.hours /\ (DayOf(h) % 7) \in tr.days

\* CronTrigger.get_next_fire_time: the first matching hour after t
NextFire(tr, t) ==
  LET c == {h \in (t + 1)..(t + 168) : Fires(tr, h)}
  IN CHOOSE h \in c : \A g \in c : h <= g

\* a job of the job store; manual: its next_run_time was set by trigger_job (ghost)
SchedJob(id, t) ==
  [id |-> id, trigger |-> Cron[id], next_run_time |-> NextFire(Cron[id], t), manual |-> FALSE]

JobPos(jobs, id) == {n \in 1..Len(jobs) : jobs[n].id = id}

\* mutant of get_job: an id the store does not hold yields its first job
get_job_or_first(jobs, id) ==
  IF JobPos(jobs, id) # {} THEN JobPos(jobs, id) ELSE {n \in 1..Len(jobs) : n = 1}

\* tasks/scheduler.py:150 scheduler.get_job(job_id): the job of that id, or
\* None (here: no position) when the store holds none
get_job(jobs, id) == JobPos(jobs, id)

\* scheduler.add_job(..., id=id, replace_existing=True) at time t
add_job(jobs, id, t) ==
  IF JobPos(jobs, id) = {} THEN Append(jobs, SchedJob(id, t))
  ELSE [n \in 1..Len(jobs) |-> IF jobs[n].id = id THEN SchedJob(id, t) ELSE jobs[n]]

\* tasks/scheduler.py:35-83 _setup_jobs: the first n add_job calls
RECURSIVE setup_jobs(_, _, _)
setup_jobs(jobs, n, t) ==
  IF n = 0 THEN jobs ELSE add_job(setup_jobs(jobs, n - 1, t), JobOrder[n], t)

\* mutant of modify: every job of the store is rescheduled
modify_all(jobs, id, t) ==
  [n \in 1..Len(jobs) |-> [jobs[n] EXCEPT !.next_run_time = t, !.manual = TRUE]]

\* tasks/scheduler.py:152  job.modify(next_run_time=datetime.now())
modify(jobs, id, t) ==
  [n \in 1..Len(jobs) |->
     IF jobs[n].id = id THEN [jobs[n] EXCEPT !.next_run_time = t, !.manual = TRUE]
     ELSE jobs[n]]

\* mutant of StartGuard: start sets the jobs up although it is running
StartGuardAlways(running) == TRUE

\* tasks/scheduler.py:22  if not self.is_running
StartGuard(running) == ~running

\* mutant of Catches: the exception leaves the job body
CatchesNothing(outcome) == FALSE

\* tasks/scheduler.py:91, 100, 109, 118, 127  except Exception
Catches(outcome) == TRUE

NoCall == [n |-> 0, call |-> "none", job_id |-> "none", result |-> FALSE]
\* done_day: the day the job's body last finished on, -1 if never;
\* raised: the id of the last body whose ETL call raised; sibling_ran: a body
\* of another job was started by its cron trigger after that
NoHist == [done_day |-> [id \in {"daily_sync", "daily_snapshot"} |-> -1],
           raised |-> "none", sibling_ran |-> FALSE, escaped |-> FALSE]

\* ------------------------------------------------------------ salary stats
NoSalary   == -1                   \* salary_min / salary_max is None (or the key is absent)
SalaryVals == {0, 2, 4}            \* even, so that a midpoint is a whole number
NoStats    == [none |-> TRUE]
StatJob(lo, hi) == [salary_min |-> lo, salary_max |-> hi]
StatJobs   == {StatJob(lo, hi) : lo, hi \in SalaryVals \cup {NoSalary}}

\* Python truth value of job.get(key): None and 0 are false
Truthy(v) == v # NoSalary /\ v # 0

\* etl_pipeline.py:266-273: the salaries list, in job order
RECURSIVE Salaries(_)
Salaries(jobs) ==
  IF jobs = <<>> THEN <<>>
  ELSE LET job == Head(jobs)
       IN (IF Truthy(job.salary_min) /\ Truthy(job.salary_max)
             THEN <<(job.salary_min + job.salary_max) \div 2>>
           ELSE IF Truthy(job.salary_min) THEN <<job.salary_min>>
           ELSE IF Truthy(job.salary_max) THEN <<job.salary_max>>
           ELSE <<>>) \o Salaries(Tail(jobs))

RECURSIVE Sum(_)
Sum(xs) == IF xs = <<>> THEN 0 ELSE Head(xs) + Sum(Tail(xs))

\* etl_pipeline.py:264-285; average is total / count
calculate_salary_stats(jobs) ==
  LET salaries == Salaries(jobs)
  IN IF salaries = <<>> THEN [count |-> 0, total |-> 0]
     ELSE [count |-> Len(salaries), total |-> Sum(salaries)]

\* job lists of at most MaxJobs jobs
RECURSIVE JobLists(_)
JobLists(n) ==
  IF n = 0 THEN {<<>>}
  ELSE JobLists(n - 1) \cup {Append(js, j) : js \in JobLists(n - 1), j \in StatJobs}

\* ------------------------------------------------------------ the sync run
IdleRun == [pc |-> "idle", sqlite_jobs |-> <<>>, batch_size |-> 1, i |-> 0, k |-> 0,
            existing |-> FALSE, job_doc |-> None,
            synced_count |-> 0, updated_count |-> 0, error_count |-> 0]
IdleObs == [call |-> 0, log |-> <<>>, nread |-> 0, overlap |-> FALSE,
            afterSettled |-> FALSE, retitled |-> FALSE, startMongo |-> <<>>]

Running(r) == r.pc \in {"find", "write"}

\* the record the loops are at: sqlite_jobs[i:i + batch_size][k]
Current(r) == r.sqlite_jobs[r.i + r.k + 1]

\* etl_pipeline.py:76-80: the function returns its three counts; its locals are gone
Return(r) ==
  [IdleRun EXCEPT !.pc = "done", !.synced_count = r.synced_count,
                  !.updated_count = r.updated_count, !.error_count = r.error_count]

\* mutant of Advance: a batch starts one record after the end of the batch before
AdvanceSkipping(r) ==
  LET n == Len(r.sqlite_jobs)
      batchLen == Min(r.batch_size, n - r.i)
  IN IF r.k + 1 < batchLen THEN [r EXCEPT !.k = @ + 1, !.pc = "find"]
     ELSE IF r.i + r.batch_size < n
       THEN [r EXCEPT !.i = @ + r.batch_size + 1, !.k = 0, !.pc = "find"]
     ELSE Return(r)

\* etl_pipeline.py:46-49: the next record of the batch, else the next batch,
\* else the loops are over
Advance(r) ==
  LET n == Len(r.sqlite_jobs)
      batchLen == Min(r.batch_size, n - r.i)
  IN IF r.k + 1 < batchLen THEN [r EXCEPT !.k = @ + 1, !.pc = "find"]
     ELSE IF r.i + r.batch_size < n
       THEN [r EXCEPT !.i = @ + r.batch_size, !.k = 0, !.pc = "find"]
     ELSE Return(r)

\* mutant of CountError: the except clause forgets its counter
CountErrorForgotten(r) == r

\* etl_pipeline.py:71-73: except Exception: error_count += 1
CountError(r) == [r EXCEPT !.error_count = @ + 1]
\* etl_pipeline.py:65 / 69
CountUpdated(r) == [r EXCEPT !.updated_count = @ + 1]
CountSynced(r) == [r EXCEPT !.synced_count = @ + 1]

ConnFaults(lg) == {n \in 1..Len(lg) : lg[n].why \in {"find_conn", "write_conn"}}
Entry(r, res, why) == [row |-> r.i + r.k + 1, result |-> res, why |-> why]

\* ghost: a run no other run overlapped and that met no connection failure
Undisturbed(o) == ~o.overlap /\ ConnFaults(o.log) = {}
\* ghost: some row read has another title than the document of its source_url
Retitled(rows, docs) ==
  \E n \in 1..Len(rows), m \in 1..Len(docs) :
    docs[m].source_url = rows[n].source_url /\ docs[m].title # rows[n].title
SettledAfter(r2, o2) == IF r2.pc = "done" THEN Undisturbed(o2) ELSE settled
\* ghost: once the run has returned only its log and flags are kept
Keep(r2, o2) == IF r2.pc = "done" THEN [o2 EXCEPT !.startMongo = <<>>] ELSE o2

\* The state after the module-level singletons are constructed; st is what
\* DataLakeManager.__init__ leaves in storage_type.
InitCore(st) ==
  /\ sqlite_jobs = <<>>
  /\ mongo_jobs = <<>>
  /\ unique_index = FALSE
  /\ mongo_up = TRUE
  /\ now = 0
  /\ srcOps = 0
  /\ run = [p \in Procs |-> IdleRun]
  /\ obs = [p \in Procs |-> IdleObs]
  /\ settled = FALSE
  /\ clock = 0
  /\ storage_type = st
  /\ lake = {}
  /\ retrieved = NoSnapshot
  /\ analytics = <<>>
  /\ calls = 0
  /\ last_written = [x \in DataTypes \X Days |-> NoSnapshot]

\* nothing handed to _calculate_salary_stats yet
StatIdle == stat_jobs = <<>> /\ salary_stats = NoStats

\* an empty job_snapshots collection and no cleanup_old_data call
CleanIdle == job_snapshots = <<>> /\ cleanup = IdleCleanup

\* ------------------------------------------------- scrapers and ingestion ----
NoUrl == ""
MaxListings == 3
MaxRows == 3
\* remote_remotive_scraper.py runs the steps of remote_remoteok_scraper.py
Scrapers == {"remoteok", "weworkremotely", "weworkremotely_v2"}
Extractions == {"empty", "json_error", "error", "ok"}

\* dict.get(key, default)
Get(job, key, default) == IF key \in DOMAIN job THEN job[key] ELSE default
Range(seq) == {seq[i] : i \in DOMAIN seq}

\* the mutant of JsonErrorRecord: the placeholder of a failed listing has a url
JsonErrorWithUrl(job_id) ==
  [job_id |-> job_id, raw_analysis |-> "raw", json_error |-> "e", url |-> "A"]
\* what analyze_with_o1_mini appends for the listing job_id
ParsedJob(job_id, url) == [job_id |-> job_id, url |-> url]
JsonErrorRecord(job_id) == [job_id |-> job_id, raw_analysis |-> "raw", json_error |-> "e"]
ErrorRecord(job_id) == [job_id |-> job_id, error |-> "e"]

\* the mutant of Accepts: every validation result passes
AcceptsAll(validation_result) == TRUE
\* validation_result.get('is_valid', False)
Accepts(validation_result) == Get(validation_result, "is_valid", FALSE)

RECURSIVE clean_and_deduplicate_from(_, _, _)
clean_and_deduplicate_from(jobs, seen_urls, cleaned_jobs) ==
  IF jobs = <<>> THEN cleaned_jobs
  ELSE LET job == Head(jobs)
           job_url == Get(job, "url", NoUrl)
       IN IF job_url # NoUrl /\ job_url \notin seen_urls
          THEN clean_and_deduplicate_from(Tail(jobs), seen_urls \cup {job_url},
                                          Append(cleaned_jobs, job))
          ELSE clean_and_deduplicate_from(Tail(jobs), seen_urls, cleaned_jobs)
clean_and_deduplicate_jobs(jobs) == clean_and_deduplicate_from(jobs, {}, <<>>)

\* a Python dict as the sequence of its items: d[key] = value keeps the place
\* of a key that is already there and replaces its value
DictSet(d, key, value) ==
  IF \E i \in DOMAIN d : d[i].key = key
  THEN [i \in DOMAIN d |-> IF d[i].key = key THEN [key |-> key, value |-> value] ELSE d[i]]
  ELSE Append(d, [key |-> key, value |-> value])
DictValues(d) == [i \in DOMAIN d |-> d[i].value]
RECURSIVE unique_jobs(_, _)
unique_jobs(jobs, d) ==
  IF jobs = <<>> THEN d
  ELSE LET job == Head(jobs)
       IN unique_jobs(Tail(jobs),
                      IF Get(job, "source_url", NoUrl) # NoUrl
                      THEN DictSet(d, job.source_url, job) ELSE d)
Take(seq, n) == SubSeq(seq, 1, IF n < Len(seq) THEN n ELSE Len(seq))
RECURSIVE Flatten(_)
Flatten(lists) == IF lists = <<>> THEN <<>> ELSE Head(lists) \o Flatten(Tail(lists))
\* job.get('is_remote') and the scraper's own test of the job, as one flag
Filter(jobs) == SelectSeq(jobs, LAMBDA job : job.is_remote)
\* all_jobs once every scraper's filtered list was added
AllJobs(lists) == Flatten([i \in DOMAIN lists |-> Filter(lists[i])])
\* job_scheduler.py:92-120 after every scraper returned its list
scheduler_scrape_new_jobs(lists) ==
  LET all_jobs == AllJobs(lists)
      jobs == lists[Len(lists)]
  IN DictValues(unique_jobs(jobs, <<>>))
\* run_sample_scraper.py:75-115; the loop over the scrapers stops at target_jobs
RECURSIVE SampleAll(_, _, _)
SampleAll(lists, all_jobs, target_jobs) ==
  IF lists = <<>> THEN all_jobs
  ELSE LET more == all_jobs \o Filter(Head(lists))
       IN IF Len(more) >= target_jobs THEN more
          ELSE SampleAll(Tail(lists), more, target_jobs)
sample_scrape_new_jobs(lists, target_jobs) ==
  Take(DictValues(unique_jobs(SampleAll(lists, <<>>, target_jobs), <<>>)), target_jobs)

\* db_utils.py:91-106
job_exists_by_url(rows, url) == url # NoUrl /\ \E i \in DOMAIN rows : rows[i].url = url
\* import_jobs_data.py:57 and 75-108: the row insert_job writes for a job
transform_job_data(job) == [url |-> Get(job, "url", NoUrl)]

IdleScrape ==
  [pc |-> "idle", scraper |-> "none", fn |-> "none", n |-> 0, i |-> 0, recent |-> {},
   analyzed |-> <<>>, cleaned |-> <<>>, trail |-> <<>>, rows |-> 0, slept |-> TRUE]
NoDedup == [lists |-> <<>>, fn |-> "none", target_jobs |-> 0, out |-> <<>>]
\* an empty jobs table, no saved file, no run
ScrapeIdle ==
  /\ jobs_table = <<>>
  /\ job_results = <<>>
  /\ scrape = IdleScrape
  /\ dedup = NoDedup

\* ------------------------------------------------- the daily job update ----
IdleDaily ==
  [pc |-> "idle", lists |-> <<>>, raised |-> {}, new_jobs |-> <<>>, processed |-> <<>>,
   saved_count |-> 0, ran |-> FALSE]
RanDaily == [IdleDaily EXCEPT !.ran = TRUE]
\* an empty Job table, no run_daily_update in progress
DailyIdle ==
  /\ db_jobs = <<>>
  /\ daily = IdleDaily
  /\ today = 0
  /\ ticks = 0
NoSave == [fn |-> "none", jobs |-> <<>>, bad |-> {}, commit_fails |-> FALSE,
           before |-> <<>>, saved_count |-> 0]
\* ------------------------------------------------ Cold Store by calendar date
\* datetime.date(year, month, day)
Date(year, month, day) == [year |-> year, month |-> month, day |-> day]
\* the days around a turn of the year, and two in the middle of a month
Calendar ==
  {Date(2024, 12, 30), Date(2024, 12, 31), Date(2025, 1, 1), Date(2025, 1, 2),
   Date(2025, 1, 3)}
IsLeap(year) == year % 4 = 0 /\ (year % 100 # 0 \/ year % 400 = 0)
DaysInMonth(year, month) ==
  IF month = 2 THEN (IF IsLeap(year) THEN 29 ELSE 28)
  ELSE IF month \in {4, 6, 9, 11} THEN 30 ELSE 31
\* date.__le__
DateLe(a, b) ==
  \/ a.year < b.year
  \/ a.year = b.year /\ a.month < b.month
  \/ a.year = b.year /\ a.month = b.month /\ a.day <= b.day
\* data_lake.py:262-267 _date_range: date(year, month, day + 1) raises ValueError
\* when day + 1 is no day of the month
RECURSIVE date_range(_, _)
date_range(current, end_date) ==
  IF ~DateLe(current, end_date) THEN [dates |-> {}, raised |-> FALSE]
  ELSE IF current.day + 1 > DaysInMonth(current.year, current.month)
    THEN [dates |-> {current}, raised |-> TRUE]
  ELSE LET rest == date_range(Date(current.year, current.month, current.day + 1), end_date)
       IN [dates |-> {current} \cup rest.dates, raised |-> rest.raised]
\* data_lake.py:225-260: the keys under the daily path of every date the
\* generator yields (both storage branches list the whole partition); an
\* exception anywhere is logged and [] is returned
list_snapshots(files, data_type, start_date, end_date) ==
  LET r == date_range(start_date, end_date)
  IN IF r.raised THEN {}
     ELSE {f \in files : f.data_type = data_type /\ f.date \in r.dates}
NoListing == [data_type |-> "none", start_date |-> Date(0, 0, 0),
              end_date |-> Date(0, 0, 0), snapshots |-> {}]
ListIdle == partitions = {} /\ listed = NoListing

\* ------------------------------------------------------------- lifespan
\* client: mongodb_manager.client is None ("none"), open, or closed;
\* started: lifespan started the scheduler; sync: how the initial sync ended
NoLife == [pc |-> "startup", client |-> "none", started |-> FALSE, sync |-> "none"]
LifeIdle == life = NoLife

\* mutant of StopsScheduler: the shutdown leaves the scheduler running
StopsSchedulerNever(running) == FALSE

\* core/startup.py:55  if task_scheduler.is_running
StopsScheduler(running) == running

MoreIdle == DailyIdle /\ save = NoSave /\ ListIdle /\ LifeIdle

\* tasks/scheduler.py:16-18, 161: a TaskScheduler that was not started
SchedIdle ==
  /\ is_running = FALSE
  /\ sched_state = "stopped"
  /\ sched_jobs = <<>>
  /\ bodies = {}
  /\ hour = 0
  /\ api = NoCall
  /\ hist = NoHist

InitOf(st) == InitCore(st) /\ StatIdle /\ CleanIdle /\ SchedIdle /\ ScrapeIdle /\ MoreIdle

\* data_lake.py:25  os.getenv('DATA_LAKE_TYPE', 'local')
Init == InitOf("local")

\* DATA_LAKE_TYPE set to an object store ('s3', 'minio') or left local
InitLake == \E st \in StorageTypes : InitOf(st)

\* etl_pipeline.py:24-44 (and 76-80 when there is no record): read the active
\* remote rows, connect (mongodb.py:19-34: ping, then _create_indexes), zero the
\* counters. A failed connect raises out of the function (82-84).
SyncStart(p, bs) ==
  /\ ~Running(run[p])
  /\ now < MaxRuns
  /\ now' = now + 1
  /\ LET rows == SelectActiveRemote(sqlite_jobs)
         others == \E q \in Procs \ {p} : Running(run[q])
         r2 == IF ~mongo_up THEN [IdleRun EXCEPT !.pc = "raised"]
               ELSE Advance([IdleRun EXCEPT !.sqlite_jobs = rows, !.batch_size = bs,
                                            !.k = -1])
         o2 == IF ~mongo_up THEN [IdleObs EXCEPT !.call = now + 1]
               ELSE [IdleObs EXCEPT !.call = now + 1, !.overlap = others,
                                    !.startMongo = mongo_jobs, !.nread = Len(rows),
                                    !.afterSettled = settled,
                                    !.retitled = Retitled(rows, mongo_jobs)]
     IN /\ run' = [run EXCEPT ![p] = r2]
        /\ obs' = [q \in Procs |->
                     IF q = p THEN Keep(r2, o2)
                     ELSE IF Running(run[q]) THEN [obs[q] EXCEPT !.overlap = TRUE]
                     ELSE obs[q]]
        /\ unique_index' = IF mongo_up THEN create_indexes(unique_index) ELSE unique_index
        /\ settled' = SettledAfter(r2, o2)
  /\ UNCHANGED <<sqlite_jobs, mongo_jobs, mongo_up, srcOps, lakeVars, restVars>>

\* mutant of Failed: the try encloses the loops, so the first failure ends them
FailedEndsLoops(p, why) ==
  LET r2 == Return(CountError(run[p]))
      o2 == [obs[p] EXCEPT !.log = Append(@, Entry(run[p], "error", why))]
  IN /\ run' = [run EXCEPT ![p] = r2]
     /\ obs' = [obs EXCEPT ![p] = Keep(r2, o2)]
     /\ settled' = SettledAfter(r2, o2)
     /\ UNCHANGED mongo_jobs

\* what the except clause of the per-record try does with a record (71-73)
Failed(p, why) ==
  LET r2 == Advance(CountError(run[p]))
      o2 == [obs[p] EXCEPT !.log = Append(@, Entry(run[p], "error", why))]
  IN /\ run' = [run EXCEPT ![p] = r2]
     /\ obs' = [obs EXCEPT ![p] = Keep(r2, o2)]
     /\ settled' = SettledAfter(r2, o2)
     /\ UNCHANGED mongo_jobs

\* etl_pipeline.py:50-57: convert the record, then await find_one
SyncFind(p) ==
  /\ run[p].pc = "find"
  /\ LET row == Current(run[p])
     IN IF ~Convertible(row) THEN Failed(p, "convert")
        ELSE IF ~mongo_up THEN Failed(p, "find_conn")
        ELSE /\ run' = [run EXCEPT ![p] =
                          [@ EXCEPT !.pc = "write",
                                    !.job_doc = convert_sqlite_to_mongodb(row, now),
                                    !.existing = find_one(mongo_jobs, row.source_url)]]
             /\ UNCHANGED <<mongo_jobs, obs, settled>>
  /\ UNCHANGED <<sqlite_jobs, unique_index, mongo_up, now, srcOps, lakeVars, restVars>>

\* etl_pipeline.py:59-69: await update_one or insert_one, then count
SyncWrite(p) ==
  /\ run[p].pc = "write"
  /\ LET r == run[p]
         doc == r.job_doc
     IN IF ~mongo_up THEN Failed(p, "write_conn")
        ELSE IF ~r.existing /\ InsertRejected(mongo_jobs, unique_index, doc)
          THEN Failed(p, "duplicate")
        ELSE LET docs2 == IF r.existing THEN update_one(mongo_jobs, doc.source_url, doc)
                          ELSE insert_one(mongo_jobs, doc)
                 r2 == Advance(IF r.existing THEN CountUpdated(r) ELSE CountSynced(r))
                 o2 == [obs[p] EXCEPT !.log = Append(@,
                          Entry(r, IF r.existing THEN "updated" ELSE "synced", "ok"))]
             IN /\ mongo_jobs' = docs2
                /\ run' = [run EXCEPT ![p] = r2]
                /\ obs' = [obs EXCEPT ![p] = Keep(r2, o2)]
                /\ settled' = SettledAfter(r2, o2)
  /\ UNCHANGED <<sqlite_jobs, unique_index, mongo_up, now, srcOps, lakeVars, restVars>>

\* ------------------------------------------------- writers of Source Store
\* A run reads Source Store once, at its start (etl_pipeline.py:30-36): a write
\* that commits during the run is for every later step the same as one that
\* commits right after the run returned, and is taken then.
SourceWrite(rows2) ==
  /\ \A q \in Procs : ~Running(run[q])
  /\ srcOps < MaxSrcOps
  /\ srcOps' = srcOps + 1
  /\ sqlite_jobs' = rows2
  /\ settled' = FALSE
  /\ UNCHANGED <<mongo_jobs, unique_index, mongo_up, now, run, obs, lakeVars, restVars>>

\* api/v1/endpoints/jobs.py create_job, import_jobs_data.py insert_job,
\* purge_and_rescrape.py:201 (remote_type taken from the AI analysis): a new
\* active row, with no look-up of its source_url
Inserted == ((Urls \cup {None}) \X {"remote"}) \cup {<<"A", "hybrid">>}
InsertJob(u, rt) ==
  /\ SourceWrite(Append(sqlite_jobs, Row(u, OldTitle, TRUE, rt)))

\* scheduler/job_scheduler.py:180-184: a re-scraped row is updated in place
UpdateJob(n) ==
  /\ n \in 1..Len(sqlite_jobs)
  /\ sqlite_jobs[n].title = OldTitle
  /\ SourceWrite([sqlite_jobs EXCEPT ![n].title = NewTitle])

\* scheduler/job_scheduler.py:227-250: rows past the cut-off become inactive
DeactivateJob(n) ==
  /\ n \in 1..Len(sqlite_jobs)
  /\ sqlite_jobs[n].is_active
  /\ SourceWrite([sqlite_jobs EXCEPT ![n].is_active = FALSE])

\* ------------------------------------------------------------ environment
MongoDown ==
  /\ mongo_up
  /\ mongo_up' = FALSE
  /\ UNCHANGED <<sqlite_jobs, mongo_jobs, unique_index, now, srcOps, run, obs, settled, lakeVars, restVars>>

MongoUp ==
  /\ ~mongo_up
  /\ mongo_up' = TRUE
  /\ UNCHANGED <<sqlite_jobs, mongo_jobs, unique_index, now, srcOps, run, obs, settled, lakeVars, restVars>>

\* ------------------------------------------------ Cold Store operations
\* data_lake.py:93-136 store_daily_snapshot
StoreSnapshot(data_type, data, target_date) ==
  /\ calls < MaxCalls
  /\ calls' = calls + 1
  /\ LET key == SnapshotKey(data_type, target_date, clock)
         snapshot_data == SnapshotData(data_type, data, target_date, clock)
     IN /\ lake' = PutObject(lake, key, Compress(snapshot_data), clock)
        /\ last_written' = [last_written EXCEPT ![<<data_type, key.path.day>>] = snapshot_data]
  /\ UNCHANGED <<restVars, syncVars, clock, storage_type, retrieved, analytics>>

\* data_lake.py:138-183 retrieve_daily_snapshot
RetrieveSnapshot(data_type, target_date) ==
  /\ retrieved' = retrieve_daily_snapshot(lake, storage_type, data_type, target_date)
  /\ UNCHANGED <<restVars, syncVars, clock, storage_type, lake, analytics, calls, last_written>>

\* etl_pipeline.py:135-180 generate_analytics_metrics (calling
\* data_lake.py:185-223 store_analytics_data); connect() raises when MongoDB
\* is unreachable and nothing is written
GenerateMetrics(target_date) ==
  /\ calls < MaxCalls
  /\ calls' = calls + 1
  /\ IF mongo_up
     THEN LET td == IF target_date = NoDate THEN Today(clock) ELSE target_date
              metrics == Metrics(mongo_jobs)
          IN /\ lake' = PutObject(lake, AnalyticsKey("daily_metrics", td, clock),
                                  [json |-> AnalyticsData("daily_metrics", metrics, td, clock)],
                                  clock)
             /\ analytics' = Append(analytics, AnalyticsMetric("daily_metrics", metrics, clock))
     ELSE UNCHANGED <<lake, analytics>>
  /\ UNCHANGED <<restVars, syncVars, clock, storage_type, retrieved, last_written>>

\* a second passes
TickClock ==
  /\ clock < MaxClock
  /\ clock' = clock + 1
  /\ UNCHANGED <<restVars, syncVars, storage_type, lake, retrieved, analytics, calls, last_written>>

\* One caller at a time, every writer of Source Store, a Secondary Store that
\* comes and goes.
Next ==
  \/ \E bs \in BatchSizes : SyncStart("daily_sync", bs)
  \/ SyncFind("daily_sync")
  \/ SyncWrite("daily_sync")
  \/ \E x \in Inserted : InsertJob(x[1], x[2])
  \/ \E n \in 1..MaxSrcOps : UpdateJob(n)
  \/ \E n \in 1..MaxSrcOps : DeactivateJob(n)
  \/ MongoDown
  \/ MongoUp

Spec == Init /\ [][Next]_vars

\* The scheduler's two sync jobs (and the start-up sync) overlapping: a run is
\* suspended at each await while the other goes on.
NextRace ==
  \/ \E p \in Procs : SyncStart(p, CallerBatch[p])
  \/ \E p \in Procs : SyncFind(p)
  \/ \E p \in Procs : SyncWrite(p)
  \/ \E x \in Inserted : InsertJob(x[1], x[2])

SpecRace == Init /\ [][NextRace]_vars

\* The Cold Store alone: snapshots stored and retrieved as the clock advances.
NextLake ==
  \/ \E dt \in DataTypes, d \in Payloads, td \in Days \cup {NoDate} : StoreSnapshot(dt, d, td)
  \/ \E dt \in DataTypes, td \in Days : RetrieveSnapshot(dt, td)
  \/ TickClock

SpecLake == InitLake /\ [][NextLake]_vars

\* The analytics generator over a Secondary Store that the sync fills.
NextAnalytics ==
  \/ InsertJob("A", "remote")
  \/ SyncStart("daily_sync", CallerBatch["daily_sync"])
  \/ SyncFind("daily_sync")
  \/ SyncWrite("daily_sync")
  \/ \E td \in Days \cup {NoDate} : GenerateMetrics(td)
  \/ TickClock

SpecAnalytics == Init /\ [][NextAnalytics]_vars

\* etl_pipeline.py:86-133 create_daily_snapshot (calling data_lake.py:93-136
\* store_daily_snapshot); connect() raises when MongoDB is unreachable
CreateDailySnapshot(target_date) ==
  /\ calls < MaxCalls
  /\ calls' = calls + 1
  /\ IF mongo_up
     THEN LET td == IF target_date = NoDate THEN Today(clock) ELSE target_date
              jobs_data == ActiveDocs(mongo_jobs)
              key == SnapshotKey("jobs", td, clock)
              snapshot_data == SnapshotData("jobs", jobs_data, td, clock)
          IN /\ unique_index' = create_indexes(unique_index)
             /\ lake' = PutObject(lake, key, Compress(snapshot_data), clock)
             /\ last_written' = [last_written EXCEPT ![<<"jobs", td>>] = snapshot_data]
             /\ job_snapshots' = job_snapshots \o JobSnapshots(jobs_data, clock)
     ELSE UNCHANGED <<unique_index, lake, last_written, job_snapshots>>
  /\ UNCHANGED <<sqlite_jobs, mongo_jobs, mongo_up, now, srcOps, run, obs, settled,
                 clock, storage_type, retrieved, analytics, statVars, cleanup, schedVars, scrapeVars, moreVars>>

\* etl_pipeline.py:182-193 cleanup_old_data up to the first delete_many
CleanupStart(days_to_keep) ==
  /\ cleanup.pc = "idle"
  /\ IF mongo_up
     THEN LET cutoff_date == CutoffDate(clock, days_to_keep)
          IN /\ unique_index' = create_indexes(unique_index)
             /\ job_snapshots' = KeepSnapshots(job_snapshots, cutoff_date)
             /\ cleanup' = [pc |-> "analytics", cutoff_date |-> cutoff_date,
                            days_to_keep |-> days_to_keep, result |-> "none",
                            deleted |-> Len(job_snapshots) - Len(job_snapshots'),
                            kept |-> Len(job_snapshots')]
     ELSE /\ cleanup' = [IdleCleanup EXCEPT !.result = "raised"]
          /\ UNCHANGED <<unique_index, job_snapshots>>
  /\ UNCHANGED <<sqlite_jobs, mongo_jobs, mongo_up, now, srcOps, run, obs, settled,
                 lakeVars, statVars, schedVars, scrapeVars, moreVars>>

\* etl_pipeline.py:197-207 the second delete_many and the return
CleanupAnalytics ==
  /\ cleanup.pc = "analytics"
  /\ IF mongo_up
     THEN /\ analytics' = KeepAnalytics(analytics, cleanup.cutoff_date)
          /\ cleanup' = [IdleCleanup EXCEPT !.result = "returned", !.kept = cleanup.kept,
                            !.deleted = cleanup.deleted + Len(analytics) - Len(analytics')]
     ELSE /\ cleanup' = [IdleCleanup EXCEPT !.result = "raised"]
          /\ UNCHANGED analytics
  /\ UNCHANGED <<syncVars, clock, storage_type, lake, retrieved, calls, last_written,
                 statVars, job_snapshots, schedVars,
                 scrapeVars, moreVars>>

\* The cleanup over a Secondary Store that one synced job, snapshots and
\* analytics fill; the Secondary Store may become unreachable during a cleanup.
NextCleanup ==
  \/ sqlite_jobs = <<>> /\ InsertJob("A", "remote")
  \/ mongo_jobs = <<>> /\ SyncStart("daily_sync", CallerBatch["daily_sync"])
  \/ SyncFind("daily_sync")
  \/ SyncWrite("daily_sync")
  \/ CreateDailySnapshot(NoDate)
  \/ GenerateMetrics(NoDate)
  \/ \E d \in DaysToKeep : CleanupStart(d)
  \/ CleanupAnalytics
  \/ cleanup.pc = "analytics" /\ MongoDown
  \/ MongoUp
  \/ TickClock

SpecCleanup == Init /\ [][NextCleanup]_vars

\* ---------------------------------------------------- scheduler operations
\* tasks/scheduler.py:20-26 start
Start ==
  /\ api.n < MaxApi
  /\ api' = [n |-> api.n + 1, call |-> "start", job_id |-> "none", result |-> FALSE]
  /\ IF StartGuard(is_running)
     THEN /\ sched_jobs' = setup_jobs(sched_jobs, Len(JobOrder), hour)
          /\ sched_state' = "running"
          /\ is_running' = TRUE
     ELSE UNCHANGED <<sched_jobs, sched_state, is_running>>
  /\ UNCHANGED <<etlVars, bodies, hour, hist>>

\* tasks/scheduler.py:28-33 stop; shutdown() empties the memory job store, and
\* the job bodies in progress are either cancelled or left to finish
Stop ==
  /\ api.n < MaxApi
  /\ api' = [n |-> api.n + 1, call |-> "stop", job_id |-> "none", result |-> FALSE]
  /\ IF is_running
     THEN /\ sched_jobs' = <<>>
          /\ sched_state' = "stopped"
          /\ is_running' = FALSE
          /\ bodies' \in {bodies, {}}
     ELSE UNCHANGED <<sched_jobs, sched_state, is_running, bodies>>
  /\ UNCHANGED <<etlVars, hour, hist>>

\* tasks/scheduler.py:147-158 trigger_job
TriggerJob(job_id) ==
  /\ api.n < MaxApi
  /\ IF get_job(sched_jobs, job_id) # {}
     THEN /\ \E n \in get_job(sched_jobs, job_id) :
               sched_jobs' = modify(sched_jobs, sched_jobs[n].id, hour)
          /\ api' = [n |-> api.n + 1, call |-> "trigger", job_id |-> job_id, result |-> TRUE]
     ELSE /\ UNCHANGED sched_jobs
          /\ api' = [n |-> api.n + 1, call |-> "trigger", job_id |-> job_id, result |-> FALSE]
  /\ UNCHANGED <<etlVars, is_running, sched_state, bodies, hour, hist>>

\* the running AsyncIOScheduler finds the job due: it starts the job's body as a
\* task unless an instance of the same job is in progress (max_instances = 1),
\* and sets the job's next run from its trigger
JobFire(id) ==
  /\ sched_state = "running"
  /\ \E n \in JobPos(sched_jobs, id) :
       /\ sched_jobs[n].next_run_time <= hour
       /\ sched_jobs' = [sched_jobs EXCEPT ![n] = SchedJob(id, hour)]
       /\ bodies' = bodies \cup {id}
       /\ hist' = IF id \notin bodies /\ hist.raised \notin {"none", id}
                      /\ ~sched_jobs[n].manual
                   THEN [hist EXCEPT !.sibling_ran = TRUE] ELSE hist
  /\ UNCHANGED <<etlVars, is_running, sched_state, hour, api>>

\* tasks/scheduler.py:85-128: the ETL call of a job body returns or raises
BodyEnd(id, outcome) ==
  /\ id \in bodies
  /\ bodies' = bodies \ {id}
  /\ hist' = [hist EXCEPT
               !.done_day = IF id \in DOMAIN @ THEN [@ EXCEPT ![id] = DayOf(hour)] ELSE @,
               !.raised = IF outcome = "raised" THEN id ELSE @,
               !.sibling_ran = IF outcome = "raised" THEN FALSE ELSE @,
               !.escaped = IF outcome = "raised" THEN ~Catches(outcome) ELSE @]
  /\ UNCHANGED <<etlVars, is_running, sched_state, sched_jobs, hour, api>>

\* an hour passes; a running scheduler has started every job that was due
Tick ==
  /\ hour < MaxHour
  /\ sched_state = "running" =>
       \A n \in 1..Len(sched_jobs) : sched_jobs[n].next_run_time > hour
  /\ hour' = hour + 1
  /\ UNCHANGED <<etlVars, is_running, sched_state, sched_jobs, bodies, api, hist>>

NextSched ==
  \/ Start
  \/ Stop
  \/ \E id \in JobIds \cup {UnknownId} : TriggerJob(id)
  \/ \E id \in JobIds : JobFire(id)
  \/ \E id \in JobIds, outcome \in {"returned", "raised"} : BodyEnd(id, outcome)
  \/ Tick

SpecSched == Init /\ [][NextSched]_vars

\* etl_pipeline.py:148 "salary_stats": self._calculate_salary_stats(jobs)
CalculateSalaryStats ==
  /\ salary_stats = NoStats
  /\ salary_stats' = calculate_salary_stats(stat_jobs)
  /\ UNCHANGED <<syncVars, lakeVars, stat_jobs, cleanVars, schedVars, scrapeVars, moreVars>>

\* _calculate_salary_stats applied to every job list of at most MaxJobs jobs
InitSalary ==
  /\ InitCore("local") /\ stat_jobs \in JobLists(MaxJobs) /\ salary_stats = NoStats
  /\ CleanIdle /\ SchedIdle /\ ScrapeIdle /\ MoreIdle
SpecSalary == InitSalary /\ [][CalculateSalaryStats]_vars

\* ------------------------------------------------------ a scraper run --------
InsertFn(scraper) ==
  IF scraper = "weworkremotely_v2" THEN "insert_jobs_into_db_streamlined"
  ELSE "insert_jobs_into_db"
Stage(trail, k, stages) ==
  IF k \in DOMAIN trail THEN [trail EXCEPT ![k] = @ \o stages] ELSE trail
Validated(validation_result) ==
  <<"Validated", IF validation_result.is_valid THEN "Accepted" ELSE "Rejected">>
TableUrls == {jobs_table[i].url : i \in DOMAIN jobs_table}

\* main() up to the analysis loop: the page is fetched and n listings are
\* extracted from it; weworkremotely_v2 first reads the URLs of the rows of the
\* past two days (get_recent_jobs_dictionary)
Fetch(scraper, n, recent) ==
  /\ scrape.pc = "idle"
  /\ recent \subseteq TableUrls
  /\ scraper # "weworkremotely_v2" => recent = {}
  /\ scrape' = [pc |-> "analyze", scraper |-> scraper, fn |-> InsertFn(scraper), n |-> n,
                i |-> 1, recent |-> recent, analyzed |-> <<>>, cleaned |-> <<>>,
                trail |-> [k \in 1..n |-> <<"Fetched">>], rows |-> Len(jobs_table),
                slept |-> TRUE]
  /\ UNCHANGED <<syncVars, lakeVars, statVars, cleanVars, schedVars, moreVars, jobs_table,
                 job_results, dedup>>

\* one pass of the loop of analyze_with_o1_mini / analyze_and_validate_with_o1_mini:
\* the model's answer is empty, not JSON, raises, or is a job with this url;
\* is_valid is what the validation says of it
Analyze(extraction, url, is_valid) ==
  /\ scrape.pc = "analyze"
  /\ extraction # "ok" => url = NoUrl /\ is_valid = FALSE
  /\ LET k == scrape.i
         validation_result == [is_valid |-> is_valid]
         parsed_job == ParsedJob(k, url)
         validates == scrape.scraper # "weworkremotely"
         known == scrape.scraper = "weworkremotely_v2" /\ Accepts(validation_result)
                  /\ url # NoUrl /\ url \in scrape.recent
         kept ==
           CASE scrape.scraper = "remoteok" -> Accepts(validation_result)
             [] scrape.scraper = "weworkremotely" -> TRUE
             [] scrape.scraper = "weworkremotely_v2" -> Accepts(validation_result) /\ ~known
         analyzed ==
           CASE extraction = "empty" -> scrape.analyzed
             [] extraction = "json_error" -> Append(scrape.analyzed, JsonErrorRecord(k))
             [] extraction = "error" -> Append(scrape.analyzed, ErrorRecord(k))
             [] extraction = "ok" ->
                  IF kept THEN Append(scrape.analyzed, parsed_job) ELSE scrape.analyzed
         stages ==
           IF extraction # "ok" THEN <<>>
           ELSE <<"Extracted">> \o (IF validates THEN Validated(validation_result) ELSE <<>>)
                \o (IF known THEN <<"Known">> ELSE <<>>)
         \* whether the pass reaches its time.sleep(2): not after `continue`
         \* (an empty response; in weworkremotely_v2 a rejected or known job)
         \* and not from the outer except clause
         sleeps ==
           CASE extraction = "empty" -> FALSE
             [] extraction = "error" -> FALSE
             [] extraction = "json_error" -> TRUE
             [] extraction = "ok" -> scrape.scraper = "weworkremotely_v2" => kept
     IN scrape' = [scrape EXCEPT !.analyzed = analyzed,
                                 !.trail = Stage(@, k, stages),
                                 !.slept = sleeps,
                                 !.i = k + 1,
                                 !.pc = IF k = scrape.n THEN "dedup" ELSE "analyze"]
  /\ UNCHANGED <<syncVars, lakeVars, statVars, cleanVars, schedVars, moreVars, jobs_table,
                 job_results, dedup>>

\* main() after the loop: time.sleep(3), the jobs are deduplicated and saved to
\* the file, and the insert function starts: it returns at once for no jobs or
\* no database
Deduplicate(connected) ==
  /\ scrape.pc = "dedup"
  /\ LET cleaned_jobs == clean_and_deduplicate_jobs(scrape.analyzed)
         kept == {cleaned_jobs[j].job_id : j \in DOMAIN cleaned_jobs}
     IN /\ job_results' = [j \in DOMAIN cleaned_jobs |-> transform_job_data(cleaned_jobs[j])]
        /\ scrape' = IF cleaned_jobs = <<>> \/ ~connected THEN IdleScrape
                      ELSE [scrape EXCEPT
                              !.cleaned = cleaned_jobs,
                              !.trail = [k \in DOMAIN @ |->
                                  IF k \in kept THEN @[k] \o <<"Deduplicated">> ELSE @[k]],
                              !.i = 1,
                              !.slept = TRUE,
                              !.pc = "insert"]
  /\ UNCHANGED <<syncVars, lakeVars, statVars, cleanVars, schedVars, moreVars, jobs_table, dedup>>

\* import_jobs_data.py main: the saved file is imported
ImportStart ==
  /\ scrape.pc = "idle"
  /\ job_results # <<>>
  /\ Len(jobs_table) + Len(job_results) <= MaxRows
  /\ scrape' = [IdleScrape EXCEPT !.pc = "insert", !.fn = "import_jobs_from_json",
                                  !.i = 1, !.cleaned = job_results]
  /\ UNCHANGED <<syncVars, lakeVars, statVars, cleanVars, schedVars, moreVars, jobs_table,
                 job_results, dedup>>

\* one pass of the loop of insert_jobs_into_db, insert_jobs_into_db_streamlined
\* or import_jobs_from_json; raises: insert_job raises and the except clause of
\* the pass goes on to the next job
InsertStep(is_valid, raises) ==
  /\ scrape.pc = "insert"
  /\ LET job == scrape.cleaned[scrape.i]
         validation_result == [is_valid |-> is_valid]
         validates == scrape.fn = "insert_jobs_into_db"
         checks == scrape.fn # "import_jobs_from_json"
         transformed_job == transform_job_data(job)
         proceeds == validates => Accepts(validation_result)
         exists == checks /\ job_exists_by_url(jobs_table, transformed_job.url)
         inserts == proceeds /\ ~exists /\ ~raises
         stages == (IF validates THEN Validated(validation_result) ELSE <<>>)
                   \o (CASE ~proceeds -> <<>>
                          [] proceeds /\ exists -> <<"Exists">>
                          [] proceeds /\ ~exists /\ raises -> <<"Failed">>
                          [] inserts -> <<"Persisted">>)
     IN /\ ~validates => is_valid = TRUE
        /\ jobs_table' = IF inserts THEN Append(jobs_table, transformed_job) ELSE jobs_table
        /\ scrape' = [scrape EXCEPT
               !.trail = Stage(@, Get(job, "job_id", 0), stages),
               !.slept = IF validates THEN FALSE ELSE @,
               !.i = @ + 1,
               !.pc = IF scrape.i = Len(scrape.cleaned) THEN "commit" ELSE "insert"]
  /\ UNCHANGED <<syncVars, lakeVars, statVars, cleanVars, schedVars, moreVars, job_results, dedup>>

\* after the loop: conn.commit(), conn.close(), and the run returns
Commit ==
  /\ scrape.pc = "commit"
  /\ scrape' = IdleScrape
  /\ UNCHANGED <<syncVars, lakeVars, statVars, cleanVars, schedVars, moreVars, jobs_table,
                 job_results, dedup>>

ScraperRun ==
  \/ \E scraper \in Scrapers, n \in 1..MaxListings, recent \in SUBSET Urls :
       Fetch(scraper, n, recent)
  \/ \E extraction \in Extractions, url \in Urls \cup {NoUrl}, is_valid \in BOOLEAN :
       Analyze(extraction, url, is_valid)
  \/ \E connected \in BOOLEAN : Deduplicate(connected)
  \/ \E is_valid \in BOOLEAN, raises \in BOOLEAN : InsertStep(is_valid, raises)
  \/ Commit
NextScrape == ScraperRun
SpecScrape == Init /\ [][NextScrape]_vars

NextIngest == ScraperRun \/ ImportStart
SpecIngest == Init /\ [][NextIngest]_vars

\* ----------------------------------------------------- deduplication ---------
\* a scraped job: the scraper scripts key it by url, the scheduler by source_url
ScrapedJob(job_id, url, is_remote) ==
  [job_id |-> job_id, url |-> url, source_url |-> url, is_remote |-> is_remote]
\* the lists two scrapers return, of at most MaxJobs jobs each
ScrapedLists ==
  LET Shapes == (Urls \cup {NoUrl}) \X BOOLEAN
      Lists == UNION {[1..k -> Shapes] : k \in 0..MaxJobs}
      Numbered(l, base) == [j \in DOMAIN l |-> ScrapedJob(base + j, l[j][1], l[j][2])]
  IN {<<Numbered(a, 0), Numbered(b, MaxJobs)>> : a, b \in Lists}

\* the scraper scripts' main(): deduplication of the jobs the analysis accepted
CleanAndDeduplicate ==
  /\ dedup' = [dedup EXCEPT !.fn = "clean_and_deduplicate_jobs", !.target_jobs = 0,
                            !.out = clean_and_deduplicate_jobs(AllJobs(dedup.lists))]
  /\ UNCHANGED <<syncVars, lakeVars, statVars, cleanVars, schedVars, moreVars, jobs_table,
                 job_results, scrape>>
\* JobScheduler._scrape_new_jobs
SchedulerScrape ==
  /\ dedup' = [dedup EXCEPT !.fn = "JobScheduler._scrape_new_jobs", !.target_jobs = 0,
                            !.out = scheduler_scrape_new_jobs(dedup.lists)]
  /\ UNCHANGED <<syncVars, lakeVars, statVars, cleanVars, schedVars, moreVars, jobs_table,
                 job_results, scrape>>
\* SampleJobScraper._scrape_new_jobs(target_jobs)
SampleScrape(target_jobs) ==
  /\ dedup' = [dedup EXCEPT !.fn = "SampleJobScraper._scrape_new_jobs",
                            !.target_jobs = target_jobs,
                            !.out = sample_scrape_new_jobs(dedup.lists, target_jobs)]
  /\ UNCHANGED <<syncVars, lakeVars, statVars, cleanVars, schedVars, moreVars, jobs_table,
                 job_results, scrape>>

InitDedup ==
  /\ InitCore("local") /\ StatIdle /\ CleanIdle /\ SchedIdle /\ MoreIdle
  /\ jobs_table = <<>> /\ job_results = <<>> /\ scrape = IdleScrape
  /\ dedup \in {[NoDedup EXCEPT !.lists = lists] : lists \in ScrapedLists}
NextDedup ==
  \/ CleanAndDeduplicate
  \/ SchedulerScrape
  \/ \E target_jobs \in 1..(MaxJobs + MaxJobs) : SampleScrape(target_jobs)
SpecDedup == InitDedup /\ [][NextDedup]_vars

\* ------------------------------------------------ the daily job update ------
\* models/job.py: a row of Job
Job(source_url, created_at, is_active) ==
  [source_url |-> source_url, created_at |-> created_at, is_active |-> is_active]

\* job_scheduler.py:90-120 when the scrapers of `raised` raise in scrape_jobs:
\* `jobs` is the list of the last scraper that returned, and is unbound when
\* none did, so that `for job in jobs` raises NameError
scrape_new_jobs(lists, raised) ==
  LET all_jobs == Flatten([i \in DOMAIN lists |->
                             IF i \in raised THEN <<>> ELSE Filter(lists[i])])
      returned == DOMAIN lists \ raised
  IN IF returned = {} THEN [error |-> TRUE, jobs |-> <<>>]
     ELSE LET last == CHOOSE i \in returned : \A j \in returned : j <= i
          IN [error |-> FALSE, jobs |-> DictValues(unique_jobs(lists[last], <<>>))]

\* the lists the scrapers of self.scrapers return, here three scrapers with at
\* most one job each
DailyLists ==
  LET Shapes == (Urls \cup {NoUrl}) \X BOOLEAN
      Lists == {<<>>} \cup {<<shape>> : shape \in Shapes}
      Numbered(l, base) == [j \in DOMAIN l |-> ScrapedJob(base + j, l[j][1], l[j][2])]
  IN {<<Numbered(a, 0), Numbered(b, 1), Numbered(c, 2)>> : a, b, c \in Lists}

\* job_scheduler.py:167-201: one session and one commit for the batch; bad is
\* the place of a job whose look-up, constructor or flush raises, 0 for none
RECURSIVE save_loop(_, _, _)
save_loop(rows, jobs, created_at) ==
  IF jobs = <<>> THEN rows
  ELSE LET job_data == Head(jobs)
           existing_job == {n \in DOMAIN rows : rows[n].source_url = job_data.source_url}
       IN save_loop(IF existing_job # {} THEN rows
                    ELSE Append(rows, Job(job_data.source_url, created_at, TRUE)),
                    Tail(jobs), created_at)
MultipleResultsFound(rows, jobs) ==
  \E k \in DOMAIN jobs :
    Cardinality({n \in DOMAIN rows : rows[n].source_url = jobs[k].source_url}) > 1
save_jobs_to_database(rows, jobs, bad, created_at) ==
  IF bad # 0 \/ MultipleResultsFound(rows, jobs)
  THEN [rows |-> rows, saved_count |-> 0]
  ELSE [rows |-> save_loop(rows, jobs, created_at), saved_count |-> Len(jobs)]

\* the mutant of OlderThan: the rows at the cut-off go too
\* created_at < datetime.now() - timedelta(days=days)
OlderThan(created_at, date, days) == created_at < date - days
\* job_scheduler.py:203-225: session.delete of every row before the cut-off
cleanup_old_jobs(rows, date) ==
  SelectSeq(rows, LAMBDA job : ~OlderThan(job.created_at, date, CleanupDays))
\* clear_old_data.py:73-138: DELETE FROM jobs WHERE created_at < cutoff, unless
\* no row is that old, the run is a dry run or the confirmation is not "yes"
clear_old_jobs(rows, date, days_old, dry_run, response) ==
  LET old == SelectSeq(rows, LAMBDA job : OlderThan(job.created_at, date, days_old))
  IN  IF Len(old) = 0 \/ dry_run \/ response \notin {"yes", "y"}
      THEN rows
      ELSE SelectSeq(rows, LAMBDA job : ~OlderThan(job.created_at, date, days_old))
\* job_scheduler.py:227-250: is_active = False for every row before the cut-off
update_existing_jobs(rows, date) ==
  [n \in DOMAIN rows |->
     IF OlderThan(rows[n].created_at, date, InactiveDays)
     THEN [rows[n] EXCEPT !.is_active = FALSE] ELSE rows[n]]

\* run_daily_update, step 1
DailyScrape(lists, raised) ==
  /\ daily.pc = "idle" /\ ~daily.ran
  /\ LET result == scrape_new_jobs(lists, raised)
     IN daily' = [IdleDaily EXCEPT !.lists = lists, !.raised = raised,
                                   !.new_jobs = result.jobs,
                                   !.pc = IF result.error THEN "failed" ELSE "process"]
  /\ UNCHANGED <<etlBase, schedVars, scrapeVars, extraVars, saveVars, db_jobs, today, ticks>>
\* step 2, _process_jobs_with_ai: the jobs at the places of keep are kept, the
\* others have a salary that is not in USD or their analysis raises
DailyProcess(keep) ==
  /\ daily.pc = "process"
  /\ keep \subseteq DOMAIN daily.new_jobs
  /\ daily' = [IdleDaily EXCEPT
       !.processed = SelectSeq(daily.new_jobs,
                               LAMBDA job : \E k \in keep : daily.new_jobs[k] = job),
       !.pc = "save"]
  /\ UNCHANGED <<etlBase, schedVars, scrapeVars, extraVars, saveVars, db_jobs, today, ticks>>
\* step 3, _save_jobs_to_database
DailySave(bad) ==
  /\ daily.pc = "save"
  /\ bad \in 0..Len(daily.processed)
  /\ LET result == save_jobs_to_database(db_jobs, daily.processed, bad, today)
     IN /\ db_jobs' = result.rows
        /\ daily' = [daily EXCEPT !.saved_count = result.saved_count, !.pc = "cleanup"]
  /\ UNCHANGED <<etlBase, schedVars, scrapeVars, extraVars, saveVars, today, ticks>>
\* step 4, _cleanup_old_jobs; fails: the session raises and is rolled back
DailyCleanup(fails) ==
  /\ daily.pc = "cleanup"
  /\ db_jobs' = IF fails THEN db_jobs ELSE cleanup_old_jobs(db_jobs, today)
  /\ daily' = [daily EXCEPT !.pc = "update"]
  /\ UNCHANGED <<etlBase, schedVars, scrapeVars, extraVars, saveVars, today, ticks>>
\* step 5, _update_existing_jobs, and the return of run_daily_update
DailyUpdateExisting(fails) ==
  /\ daily.pc = "update"
  /\ db_jobs' = IF fails THEN db_jobs ELSE update_existing_jobs(db_jobs, today)
  /\ daily' = RanDaily
  /\ UNCHANGED <<etlBase, schedVars, scrapeVars, extraVars, saveVars, today, ticks>>
\* job_scheduler.py:86-88: the exception of step 1 is logged and the run ends
DailyFailed ==
  /\ daily.pc = "failed"
  /\ daily' = RanDaily
  /\ UNCHANGED <<etlBase, schedVars, scrapeVars, extraVars, saveVars, db_jobs, today, ticks>>
\* job_scheduler.py:38: the update runs once a day; days pass until the next
DailyTick(days) ==
  /\ daily.pc = "idle"
  /\ ticks < MaxTicks
  /\ today' = today + days
  /\ ticks' = ticks + 1
  /\ daily' = IdleDaily
  /\ UNCHANGED <<etlBase, schedVars, scrapeVars, extraVars, saveVars, db_jobs>>
\* clear_old_data.py run by hand between two daily updates
ClearOldJobs(dry_run, response) ==
  /\ daily.pc = "idle"
  /\ db_jobs' = clear_old_jobs(db_jobs, today, DaysOld, dry_run, response)
  /\ db_jobs' # db_jobs
  /\ UNCHANGED <<etlBase, schedVars, scrapeVars, extraVars, saveVars, daily, today, ticks>>

NextDaily ==
  \/ \E lists \in DailyLists, raised \in SUBSET (1..3) : DailyScrape(lists, raised)
  \/ \E keep \in SUBSET (1..3) : DailyProcess(keep)
  \/ \E bad \in 0..3 : DailySave(bad)
  \/ \E fails \in BOOLEAN : DailyCleanup(fails)
  \/ \E fails \in BOOLEAN : DailyUpdateExisting(fails)
  \/ DailyFailed
  \/ \E days \in {1, InactiveDays + 1, CleanupDays + 1} : DailyTick(days)
  \/ \E dry_run \in BOOLEAN, response \in {"yes", "no"} : ClearOldJobs(dry_run, response)
SpecDaily == Init /\ [][NextDaily]_vars

\* ------------------------------------------------------ saving a batch -------
\* the batches of at most MaxJobs processed jobs
Batches ==
  UNION {[1..k -> {[source_url |-> u] : u \in Urls}] : k \in 1..MaxJobs}
Places(jobs, bad) == {k \in DOMAIN jobs : k \notin bad}
\* multi_platform_scraper.py:119-171: every job is added in a try of its own and
\* the batch is committed once; the jobs at the places of bad raise in the pass,
\* commit_fails: the commit raises and the session is rolled back
multi_platform_save(rows, jobs, bad, commit_fails, created_at) ==
  LET added == [k \in 1..Cardinality(Places(jobs, bad)) |->
                  LET place == CHOOSE p \in Places(jobs, bad) :
                                 Cardinality({q \in Places(jobs, bad) : q <= p}) = k
                  IN Job(jobs[place].source_url, created_at, TRUE)]
  IN [rows |-> IF commit_fails THEN rows ELSE rows \o added,
      saved_count |-> Len(added)]

\* JobScheduler._save_jobs_to_database(jobs)
SchedulerSave(jobs, bad) ==
  /\ bad \in 0..Len(jobs)
  /\ LET result == save_jobs_to_database(db_jobs, jobs, bad, today)
     IN /\ db_jobs' = result.rows
        /\ save' = [fn |-> "JobScheduler._save_jobs_to_database", jobs |-> jobs,
                    bad |-> IF bad = 0 THEN {} ELSE {bad}, commit_fails |-> FALSE,
                    before |-> db_jobs, saved_count |-> result.saved_count]
  /\ UNCHANGED <<etlBase, schedVars, scrapeVars, extraVars, daily, today, ticks>>
\* MultiPlatformJobScraper.save_jobs_to_database(jobs)
MultiPlatformSave(jobs, bad, commit_fails) ==
  /\ bad \subseteq DOMAIN jobs
  /\ Len(db_jobs) + Len(jobs) <= MaxRows
  /\ LET result == multi_platform_save(db_jobs, jobs, bad, commit_fails, today)
     IN /\ db_jobs' = result.rows
        /\ save' = [fn |-> "MultiPlatformJobScraper.save_jobs_to_database", jobs |-> jobs,
                    bad |-> bad, commit_fails |-> commit_fails,
                    before |-> db_jobs, saved_count |-> result.saved_count]
  /\ UNCHANGED <<etlBase, schedVars, scrapeVars, extraVars, daily, today, ticks>>

NextSave ==
  \/ \E jobs \in Batches, bad \in 0..MaxJobs : SchedulerSave(jobs, bad)
  \/ \E jobs \in Batches, bad \in SUBSET (1..MaxJobs), commit_fails \in BOOLEAN :
       MultiPlatformSave(jobs, bad, commit_fails)
SpecSave == Init /\ [][NextSave]_vars

\* ===================================================================== claims
Result(r) == [synced |-> r.synced_count, updated |-> r.updated_count, errors |-> r.error_count]
Counts(a, b, c) == [synced |-> a, updated |-> b, errors |-> c]

\* the step in which caller p's run returns its counts
Returns(p) == run'[p].pc = "done" /\ (run[p].pc # "done" \/ obs'[p].call # obs[p].call)
\* the jobs collection as the run that returns in this step found it
Before(p) == IF Running(run[p]) THEN obs[p].startMongo ELSE mongo_jobs
\* the rows the run that returns in this step had read
RowsRead(p) == IF Running(run[p]) THEN run[p].sqlite_jobs ELSE SelectActiveRemote(sqlite_jobs)

\* a document without metadata.sync_date
Strip(docs) ==
  [n \in 1..Len(docs) |-> [source_url |-> docs[n].source_url, title |-> docs[n].title,
                           is_active |-> docs[n].is_active]]

\* the run that returns follows, with Source Store unchanged and no connection
\* failure in either, a run that returned
SecondInARow(p) == Returns(p) /\ Undisturbed(obs'[p]) /\ obs'[p].afterSettled

C3_CountsAddUp ==
  \A p \in Procs :
    run[p].pc = "done" =>
      run[p].synced_count + run[p].updated_count + run[p].error_count = obs[p].nread

C3_Witness ==
  \E p \in Procs :
    /\ run[p].pc = "done"
    /\ run[p].synced_count >= 1 /\ run[p].updated_count >= 1 /\ run[p].error_count >= 1

DistinctUrls(rows) ==
  /\ \A n \in 1..Len(rows) : Convertible(rows[n])
  /\ \A m, n \in 1..Len(rows) : m # n => rows[m].source_url # rows[n].source_url
TitleOf(docs, u) == docs[FirstPos(docs, u)].title

\* a run over N >= 1 rows of distinct source_urls returns, with no other run
\* overlapping it and no connection failure
CleanReturn(p) ==
  /\ Returns(p) /\ Running(run[p])
  /\ Undisturbed(obs'[p])
  /\ DistinctUrls(run[p].sqlite_jobs)

\* C4: a sync over N records none of which is in the jobs collection returns
\* {N, 0, 0}; a sync over N records all of which are there returns {0, N, 0},
\* adds no document, and leaves each document with the title of its row.
C4_InsertThenUpdate ==
  [][\A p \in Procs :
       CleanReturn(p) =>
         LET rows == run[p].sqlite_jobs
             N == Len(rows)
         IN /\ (\A n \in 1..N : ~find_one(Before(p), rows[n].source_url))
                 => Result(run'[p]) = Counts(N, 0, 0)
            /\ (\A n \in 1..N : find_one(Before(p), rows[n].source_url))
                 => /\ Result(run'[p]) = Counts(0, N, 0)
                    /\ Len(mongo_jobs') = Len(Before(p))
                    /\ \A n \in 1..N :
                         TitleOf(mongo_jobs', rows[n].source_url) = rows[n].title]_vars

\* the second sync of the scenario has returned: two rows, one retitled since
\* the first sync, both updated, none inserted
C4_Witness ==
  \E p \in Procs :
    /\ run[p].pc = "done" /\ Undisturbed(obs[p]) /\ obs[p].retitled
    /\ Result(run[p]) = Counts(0, 2, 0)
    /\ Len(mongo_jobs) = 2
    /\ \E n \in 1..2 : mongo_jobs[n].title = NewTitle /\ mongo_jobs[n].sync_date = obs[p].call

Errors(lg) == {n \in 1..Len(lg) : lg[n].result = "error"}

\* C5: a record that fails is counted in errors and ends nothing: the run goes
\* through every record it read, in order, writes each one that does not fail
\* itself, and returns its counts.
C5_FailureIsPerRecord ==
  \A p \in Procs :
    /\ run[p].pc = "raised" => obs[p].log = <<>>
    /\ run[p].pc = "done" =>
         /\ Len(obs[p].log) = obs[p].nread
         /\ \A n \in 1..Len(obs[p].log) : obs[p].log[n].row = n
         /\ run[p].error_count = Cardinality(Errors(obs[p].log))
         /\ run[p].synced_count + run[p].updated_count
              = Cardinality({n \in 1..Len(obs[p].log) : obs[p].log[n].why = "ok"})

\* a record failed and a later record of the same run was written
C5_Witness ==
  \E p \in Procs :
    /\ run[p].pc = "done"
    /\ \E m, n \in 1..Len(obs[p].log) :
         m < n /\ obs[p].log[m].result = "error" /\ obs[p].log[n].why = "ok"

\* C6 as claimed: no run that returns normally has absorbed a connection
\* failure into its error counter.
C6_ConnectionFailureNeverReturned ==
  \A p \in Procs : run[p].pc = "done" => ConnFaults(obs[p].log) = {}

ActiveDocUrls(docs) == {docs[n].source_url : n \in {m \in 1..Len(docs) : docs[m].is_active}}
ActiveRowUrls(rows) ==
  {SelectActiveRemote(rows)[n].source_url : n \in 1..Len(SelectActiveRemote(rows))}

\* C7 as claimed: when a run returns with errors = 0, the source_urls of the
\* active documents are those of the active remote rows.
C7_MirrorAfterSync ==
  [][\A p \in Procs :
       (Returns(p) /\ run'[p].error_count = 0)
         => ActiveDocUrls(mongo_jobs') = ActiveRowUrls(sqlite_jobs')]_vars

PartitionFiles(dt, d) == {f \in lake : f.key.path = [data_type |-> dt, day |-> d]}

\* C8: whenever a date partition holds snapshots, retrieve_daily_snapshot
\* returns the one that was stored last for it.
C8_RetrievesLastWritten ==
  \A dt \in DataTypes, d \in Days :
    PartitionFiles(dt, d) # {} =>
      retrieve_daily_snapshot(lake, storage_type, dt, d) = last_written[<<dt, d>>]

\* a snapshot was retrieved from a partition of two files, and it is the one
\* stored last although the other file's name sorts after it
C8_Witness ==
  \E dt \in DataTypes, d \in Days :
    /\ retrieved # NoSnapshot
    /\ retrieved = last_written[<<dt, d>>]
    /\ \E f, g \in PartitionFiles(dt, d) :
         /\ Decompress(f.body) = retrieved
         /\ g.key.suffix > f.key.suffix

\* C9 as claimed: no store_daily_snapshot call changes or replaces an object
\* that an earlier call wrote.
C9_WrittenOnce ==
  [][\A f \in lake : f \in lake']_vars

DailyMetricsOn(d) ==
  {n \in 1..Len(analytics) :
     analytics[n].metric_type = "daily_metrics" /\ Today(analytics[n].date) = d}

\* C10 as claimed: the analytics collection never holds more than one
\* daily_metrics document for one date.
C10_OneDailyMetricsPerDate ==
  \A d \in Days : Cardinality(DailyMetricsOn(d)) <= 1

Present(v) == v # NoSalary

\* what a job contributes by the stated rule: the midpoint of two bounds,
\* the single bound, or nothing
RECURSIVE Contributions(_)
Contributions(jobs) ==
  IF jobs = <<>> THEN <<>>
  ELSE LET job == Head(jobs)
       IN (IF Present(job.salary_min) /\ Present(job.salary_max)
             THEN <<(job.salary_min + job.salary_max) \div 2>>
           ELSE IF Present(job.salary_min) THEN <<job.salary_min>>
           ELSE IF Present(job.salary_max) THEN <<job.salary_max>>
           ELSE <<>>) \o Contributions(Tail(jobs))

\* C11 as claimed: count and average of the salary statistics are those of
\* one value per job with a bound - the midpoint of two bounds, the single
\* bound otherwise - for every bound value, 0 included.
C11_OneValuePerJob ==
  salary_stats # NoStats =>
    /\ salary_stats.count = Len(Contributions(stat_jobs))
    /\ salary_stats.total = Sum(Contributions(stat_jobs))

\* C12: the first delete_many of cleanup_old_data removes exactly the
\* job_snapshots dated before the cutoff (now - days_to_keep), the second
\* exactly the analytics documents dated before it, and neither step changes
\* the jobs collection, Source Store or Cold Store.
C12_CleanupDeletesOnlyOlder ==
  [][/\ (cleanup.pc = "idle" /\ cleanup'.pc = "analytics") =>
          /\ cleanup'.cutoff_date = clock - cleanup'.days_to_keep * DayLen
          /\ \A n \in 1..Len(job_snapshots') : job_snapshots'[n].snapshot_date >= cleanup'.cutoff_date
          /\ job_snapshots' = SelectSeq(job_snapshots,
                                LAMBDA d : d.snapshot_date >= cleanup'.cutoff_date)
          /\ UNCHANGED <<analytics, mongo_jobs, sqlite_jobs, lake>>
     /\ (cleanup.pc = "analytics" /\ cleanup'.result = "returned") =>
          /\ analytics' = SelectSeq(analytics, LAMBDA d : d.date >= cleanup.cutoff_date)
          /\ UNCHANGED <<job_snapshots, mongo_jobs, sqlite_jobs, lake>>
    ]_vars

\* a cleanup returned after it deleted documents and kept a job snapshot,
\* with the jobs collection, Source Store and Cold Store not empty
C12_Witness ==
  /\ cleanup.result = "returned"
  /\ cleanup.deleted > 0
  /\ cleanup.kept > 0
  /\ lake # {}
  /\ mongo_jobs # <<>>
  /\ sqlite_jobs # <<>>

ApiCall(call) == api'.n # api.n /\ api'.call = call

\* C13: trigger_job(id) for a registered job returns true and sets that job's
\* next_run_time to now; the job's trigger and the other jobs of the store
\* are as they were.
C13_TriggerReschedulesOnlyThatJob ==
  [][(ApiCall("trigger") /\ JobPos(sched_jobs, api'.job_id) # {}) =>
        /\ api'.result = TRUE
        /\ Len(sched_jobs') = Len(sched_jobs)
        /\ \A n \in 1..Len(sched_jobs) :
             IF sched_jobs[n].id = api'.job_id
               THEN /\ sched_jobs'[n].next_run_time = hour
                    /\ sched_jobs'[n].id = sched_jobs[n].id
                    /\ sched_jobs'[n].trigger = sched_jobs[n].trigger
               ELSE sched_jobs'[n] = sched_jobs[n]
    ]_vars

\* trigger_job returned true with five jobs registered: the job it named is
\* due now and the other four are due later
C13_Witness ==
  /\ api.call = "trigger"
  /\ api.result
  /\ Len(sched_jobs) = 5
  /\ \A n \in 1..Len(sched_jobs) :
       IF sched_jobs[n].id = api.job_id THEN sched_jobs[n].next_run_time = hour
       ELSE sched_jobs[n].next_run_time > hour

RegisteredOnce ==
  /\ \A n \in 1..Len(sched_jobs) : sched_jobs[n].id \in JobIds
  /\ \A id \in JobIds : Cardinality(JobPos(sched_jobs, id)) <= 1

\* C14: whatever start and stop calls were made, every named job is in the
\* job store at most once and is_running tells whether the AsyncIOScheduler
\* runs; a start call on a running TaskScheduler changes neither.
C14_StartStopKeepJobsOnce ==
  [][/\ RegisteredOnce'
     /\ is_running' <=> (sched_state' = "running")
     /\ (ApiCall("start") /\ is_running) =>
          UNCHANGED <<sched_jobs, sched_state, is_running>>
    ]_vars

\* start was called on a running scheduler one of whose jobs had been triggered
\* by hand: setting the jobs up again would have rescheduled it
C14_Witness ==
  /\ api.call = "start"
  /\ is_running
  /\ Len(sched_jobs) = 5
  /\ \E n \in 1..Len(sched_jobs) : sched_jobs[n].manual /\ sched_jobs[n].next_run_time = hour

\* C15: when the ETL call of a job body raises, the body ends without the
\* exception leaving it, and the job store (the job itself and its siblings,
\* with their next runs), the scheduler's state and is_running are unchanged.
C15_FailureStaysInBody ==
  [][\A id \in JobIds :
       (id \in bodies /\ id \notin bodies' /\ api' = api /\ hist'.raised = id) =>
          /\ ~hist'.escaped
          /\ bodies' = bodies \ {id}
          /\ UNCHANGED <<sched_jobs, sched_state, is_running>>
    ]_vars

\* a body raised, its job is still registered with a later run, and after
\* that the body of a sibling was started by its own cron trigger
C15_Witness ==
  /\ hist.raised # "none"
  /\ hist.sibling_ran
  /\ ~hist.escaped
  /\ is_running
  /\ \E n \in JobPos(sched_jobs, hist.raised) : sched_jobs[n].next_run_time > hour

\* C16 as claimed: at most one job body is in progress at any time.
C16_OneBodyAtATime ==
  Cardinality(bodies) <= 1

\* the job's body is started by its cron trigger, not by trigger_job
CronStart(id) ==
  /\ id \notin bodies
  /\ id \in bodies'
  /\ \E n \in JobPos(sched_jobs, id) : ~sched_jobs[n].manual

SameDayAfter(id) == id \notin bodies /\ hist.done_day[id] = DayOf(hour)

\* C17 as claimed: when the cron trigger starts the daily snapshot, that day's
\* daily sync has run and finished; when it starts the daily analytics, that
\* day's daily snapshot has run and finished.
C17_SyncThenSnapshotThenAnalytics ==
  [][/\ CronStart("daily_snapshot") => SameDayAfter("daily_sync")
     /\ CronStart("daily_analytics") => SameDayAfter("daily_snapshot")
    ]_vars

\* ------------------------------------------------------------- lifespan
\* core/startup.py:21-24 and 44-46: await mongodb_manager.connect()
\* (mongodb.py:19-34: the client is made, then ping and _create_indexes); when
\* it raises the startup is logged as failed and the exception re-raised
LifeConnect ==
  /\ life.pc = "startup"
  /\ IF mongo_up
     THEN /\ life' = [life EXCEPT !.pc = "scheduler", !.client = "open"]
          /\ unique_index' = create_indexes(unique_index)
     ELSE /\ life' = [life EXCEPT !.pc = "aborted", !.client = "failed"]
          /\ UNCHANGED unique_index
  /\ UNCHANGED <<sqlite_jobs, mongo_jobs, mongo_up, now, srcOps, run, obs, settled,
                 lakeVars, statVars, cleanVars, schedVars, scrapeVars, dailyVars,
                 saveVars, listVars>>

\* core/startup.py:29-33: task_scheduler.start() unless ENABLE_SCHEDULER is
\* not 'true' (tasks/scheduler.py:20-26)
LifeStartScheduler(enabled) ==
  /\ life.pc = "scheduler"
  /\ life' = [life EXCEPT !.pc = "sync", !.started = enabled]
  /\ IF enabled /\ StartGuard(is_running)
     THEN /\ sched_jobs' = setup_jobs(sched_jobs, Len(JobOrder), hour)
          /\ sched_state' = "running"
          /\ is_running' = TRUE
     ELSE UNCHANGED <<sched_jobs, sched_state, is_running>>
  /\ UNCHANGED <<lifeRest, bodies, hour, api, hist>>

\* core/startup.py:35-42: the initial sync_sqlite_to_mongodb(batch_size=50);
\* Source Store is empty at startup here, so a run that returns wrote
\* nothing; it raises when its connect() does, or for a failure of its own,
\* and the except clause logs a warning: the startup completes either way
LifeInitialSync(outcome) ==
  /\ life.pc = "sync"
  /\ sqlite_jobs = <<>>
  /\ ~mongo_up => outcome = "raised"
  /\ life' = [life EXCEPT !.pc = "serving",
                          !.sync = IF outcome = "raised" THEN "failed" ELSE "completed"]
  /\ UNCHANGED <<lifeRest, schedVars>>

\* core/startup.py:50-57: the application shuts down; task_scheduler.stop()
\* when it is running (tasks/scheduler.py:28-33)
LifeStopScheduler ==
  /\ life.pc = "serving"
  /\ life' = [life EXCEPT !.pc = "disconnect"]
  /\ IF StopsScheduler(is_running)
     THEN /\ sched_jobs' = <<>>
          /\ sched_state' = "stopped"
          /\ is_running' = FALSE
          /\ bodies' \in {bodies, {}}
     ELSE UNCHANGED <<sched_jobs, sched_state, is_running, bodies>>
  /\ UNCHANGED <<lifeRest, hour, api, hist>>

\* core/startup.py:59-63: await mongodb_manager.disconnect() (mongodb.py:36-40)
LifeDisconnect ==
  /\ life.pc = "disconnect"
  /\ life' = [life EXCEPT !.pc = "closed", !.client = "closed"]
  /\ UNCHANGED <<lifeRest, schedVars>>

\* The application from startup to shutdown: the scheduler's jobs fire and
\* end as the hours pass, the start and stop endpoints are called while the
\* application serves, the Secondary Store comes and goes.
NextLife ==
  \/ LifeConnect
  \/ \E enabled \in BOOLEAN : LifeStartScheduler(enabled)
  \/ \E outcome \in {"returned", "raised"} : LifeInitialSync(outcome)
  \/ LifeStopScheduler
  \/ LifeDisconnect
  \/ life.pc = "serving" /\ Start
  \/ life.pc = "serving" /\ Stop
  \/ \E id \in JobIds : JobFire(id)
  \/ \E id \in JobIds, outcome \in {"returned", "raised"} : BodyEnd(id, outcome)
  \/ Tick
  \/ MongoDown
  \/ MongoUp
SpecLife == Init /\ [][NextLife]_vars

\* ------------------------------------------------ listing the Cold Store
\* data_lake.py:93-136 store_daily_snapshot(data_type, data, target_date): a key
\* under the daily path of target_date
StoreOn(data_type, target_date) ==
  /\ Cardinality(partitions) < MaxFiles
  /\ partitions' = partitions \cup {[data_type |-> data_type, date |-> target_date]}
  /\ partitions' # partitions
  /\ UNCHANGED <<coreVars, listed>>

\* data_lake.py:225-260 list_snapshots
ListSnapshots(data_type, start_date, end_date) ==
  /\ listed' = [data_type |-> data_type, start_date |-> start_date, end_date |-> end_date,
                snapshots |-> list_snapshots(partitions, data_type, start_date, end_date)]
  /\ UNCHANGED <<coreVars, partitions>>

NextList ==
  \/ \E dt \in DataTypes, d \in Calendar : StoreOn(dt, d)
  \/ \E dt \in DataTypes, s \in Calendar, e \in Calendar : ListSnapshots(dt, s, e)
SpecList == Init /\ [][NextList]_vars

\* ------------------------------------------------------------------ C18 ------
First(t, stage) == CHOOSE i \in DOMAIN t : t[i] = stage /\ \A j \in 1..(i - 1) : t[j] # stage
\* every stage of stages occurs in the trail t, and they first occur in this order
InOrder(t, stages) ==
  /\ \A a \in DOMAIN stages : stages[a] \in Range(t)
  /\ \A a, b \in DOMAIN stages : a < b => First(t, stages[a]) < First(t, stages[b])
PersistedListings == {k \in DOMAIN scrape.trail : "Persisted" \in Range(scrape.trail[k])}

Accepted == AllJobs(dedup.lists)
SameUrl(job, other) == Get(job, "url", NoUrl) = Get(other, "url", NoUrl)
\* C19: within one run the deduplication of the accepted jobs returns every URL
\* once, in the input order, keeps for a URL the first job seen with it, and
\* drops no accepted job whose URL no other accepted job has.
C19_FirstSeenKeptInOrder ==
  dedup.fn # "none" =>
    /\ \A i, j \in DOMAIN dedup.out : i # j => ~SameUrl(dedup.out[i], dedup.out[j])
    /\ \A i \in DOMAIN dedup.out : dedup.out[i] \in Range(Accepted)
    /\ \A i, j \in DOMAIN dedup.out : i < j => dedup.out[i].job_id < dedup.out[j].job_id
    /\ \A i \in DOMAIN dedup.out : \A a \in DOMAIN Accepted :
         SameUrl(Accepted[a], dedup.out[i]) => Accepted[a].job_id >= dedup.out[i].job_id
    /\ \A a \in DOMAIN Accepted :
         (/\ Accepted[a].url # NoUrl
          /\ \A b \in DOMAIN Accepted : b # a => ~SameUrl(Accepted[a], Accepted[b]))
         => Accepted[a] \in Range(dedup.out)

\* ------------------------------------------------------------------ C20 ------
\* C20: after any sequence of ingestion runs (insert_jobs_into_db,
\* insert_jobs_into_db_streamlined, import_jobs_from_json) Source Store never
\* holds two job records with the same URL, so ingesting the same accepted jobs
\* a second time inserts nothing.
C20_NoTwoRowsWithOneUrl ==
  \A i, j \in DOMAIN jobs_table : i # j => jobs_table[i].url # jobs_table[j].url

\* ------------------------------------------------------------------ C21 ------
Listings == DOMAIN scrape.trail
Reached(stage) == {k \in Listings : stage \in Range(scrape.trail[k])}
\* the listings whose extraction response was empty, not JSON, or raised
Malformed == Listings \ Reached("Extracted")
ParsedJobs == SelectSeq(scrape.analyzed, LAMBDA job : "url" \in DOMAIN job)
\* the run is over, its listings had distinct URLs, none of them in Source Store
DistinctNewRun ==
  /\ scrape.pc = "commit" /\ scrape.scraper # "none"
  /\ \A i \in DOMAIN ParsedJobs : ParsedJobs[i].url # NoUrl
  /\ \A i, j \in DOMAIN ParsedJobs : i # j => ParsedJobs[i].url # ParsedJobs[j].url
  /\ Reached("Known") = {} /\ Reached("Exists") = {}
RowsAdded == Len(jobs_table) - scrape.rows

DailyAccepted ==
  SelectSeq(Flatten([i \in DOMAIN daily.lists |->
                       IF i \in daily.raised THEN <<>> ELSE Filter(daily.lists[i])]),
            LAMBDA job : job.source_url # NoUrl)
Scraped == daily.pc \in {"process", "failed"}
C23_OtherJobsStillStored ==
  (save.fn # "none" /\ save.bad # {}) =>
    /\ \A k \in Places(save.jobs, save.bad) : \E n \in DOMAIN db_jobs :
         db_jobs[n].source_url = save.jobs[k].source_url
    /\ save.saved_count = Cardinality(Places(save.jobs, save.bad))
    /\ save.fn = "MultiPlatformJobScraper.save_jobs_to_database" =>
         Len(db_jobs) - Len(save.before) = save.saved_count

\* ------------------------------------------------------------------ C24 ------
\* the step is a pass of a per-listing loop that makes an external call
CallingPass ==
  /\ scrape' # scrape
  /\ \/ scrape.pc = "analyze"
     \/ scrape.pc = "insert" /\ scrape.fn = "insert_jobs_into_db"
\* C24: between the external calls of two consecutive passes of a scraper run
\* the fixed delay elapses, on every path through the per-listing loop and
\* between the validation calls made while inserting.
C24_DelayBetweenCalls == [][CallingPass => scrape.slept]_vars

\* ------------------------------------------------------------------ C25 ------
\* the row is still stored after the step
StaysStored(job) ==
  \E m \in DOMAIN db_jobs' :
     /\ db_jobs'[m].source_url = job.source_url
     /\ db_jobs'[m].created_at = job.created_at
\* C25: no daily update and no cleanup operation removes a job from the
\* jobs table: every row stored before a step is stored after it.
C25_RetentionNeverRemoves == [][\A n \in DOMAIN db_jobs : StaysStored(db_jobs[n])]_vars

\* ------------------------------------------------------------------ C26 ------
\* the rows the run has handled so far are rows 1..Len(log) of what it read
HandledInOrder(p) == \A n \in 1..Len(obs[p].log) : obs[p].log[n].row = n
\* the positions the two loops visit from r on, in the order visited
RECURSIVE Visits(_)
Visits(r) == IF r.pc # "find" THEN <<>> ELSE <<r.i + r.k + 1>> \o Visits(Advance(r))
BatchOrder(rows, bs) ==
  Visits(Advance([IdleRun EXCEPT !.sqlite_jobs = rows, !.batch_size = bs, !.k = -1]))
SampleBatchSizes == {1, 2, 3, 50, 100, 1000}
\* C26: whatever the batch_size, a sync run handles each active remote row it
\* read exactly once and in the order read: while it runs it is at the row
\* after the last one handled, and it returns when all were handled. The
\* batch_size decides nothing but where a batch ends.
C26_EachRowOnceInOrder ==
  \A p \in Procs :
    /\ HandledInOrder(p)
    /\ Running(run[p]) =>
         /\ run[p].batch_size \in BatchSizes
         /\ Len(obs[p].log) < obs[p].nread
         /\ run[p].i + run[p].k = Len(obs[p].log)
    /\ run[p].pc = "done" => Len(obs[p].log) = obs[p].nread
    /\ Running(run[p]) /\ Len(obs[p].log) = 0 =>
         \A bs \in SampleBatchSizes :
           BatchOrder(run[p].sqlite_jobs, bs) = [n \in 1..obs[p].nread |-> n]

\* a run in batches of two is in its second batch, the first one handled
C26_Witness ==
  \E p \in Procs :
    /\ Running(run[p])
    /\ run[p].batch_size = 2
    /\ run[p].i = 2
    /\ Len(obs[p].log) = 2

\* ------------------------------------------------------------------ C27 ------
\* the keys stored for the call's data_type under a date of [start, end]
StoredInRange(l) ==
  {f \in partitions : /\ f.data_type = l.data_type
                      /\ DateLe(l.start_date, f.date) /\ DateLe(f.date, l.end_date)}
\* C27: for every start_date <= end_date, list_snapshots returns the key of
\* every snapshot of the data type stored under a date between the two, the
\* last day of a month and a range over a turn of the month or year included.
C27_ListsEveryDateInRange ==
  [][listed' # listed /\ DateLe(listed'.start_date, listed'.end_date)
       => listed'.snapshots = StoredInRange(listed')]_vars

\* ------------------------------------------------------------------ C28 ------
\* the job is in the filtered list of a scraper that returned
PassedFilter(job) ==
  \E i \in DOMAIN daily.lists \ daily.raised :
    \E n \in DOMAIN Filter(daily.lists[i]) : Filter(daily.lists[i])[n] = job
\* C28: every job _scrape_new_jobs returns passed the filter; the result holds
\* the filtered jobs of every scraper that returned, one per source_url; a
\* scraper that raises adds nothing and does not end the daily update.
C28_ReturnsTheFilteredJobs ==
  Scraped =>
    /\ daily.pc = "process"
    /\ \A k \in DOMAIN daily.new_jobs : PassedFilter(daily.new_jobs[k])
    /\ \A a \in DOMAIN DailyAccepted :
         Cardinality({k \in DOMAIN daily.new_jobs :
                        daily.new_jobs[k].source_url = DailyAccepted[a].source_url}) = 1

\* ------------------------------------------------------------------ C29 ------
\* the step is a trigger_job call for an id the job store does not hold: an
\* id of no job, or any id while the scheduler was never started or is stopped
TriggerOfUnknown ==
  /\ api'.n = api.n + 1
  /\ api'.call = "trigger"
  /\ \A n \in 1..Len(sched_jobs) : sched_jobs[n].id # api'.job_id
\* C29: trigger_job with an id the scheduler holds no job for, and with any id
\* before the scheduler was first started, returns false and changes no job.
C29_UnknownIdChangesNothing ==
  [][TriggerOfUnknown => /\ api'.result = FALSE
                         /\ sched_jobs' = sched_jobs
                         /\ bodies' = bodies]_vars

\* trigger_job returned false for the unknown id while the jobs are set up
C29_Witness ==
  /\ api.call = "trigger" /\ api.job_id = UnknownId /\ api.result = FALSE
  /\ Len(sched_jobs) = Len(JobOrder)

\* ------------------------------------------------------------------ C30 ------
\* what holds of every state of the lifespan
LifeOrder ==
  /\ (sched_state = "running" \/ life.started) => life.client \in {"open", "closed"}
  /\ sched_state = "running" => life.client = "open"
  /\ life.sync # "none" => life.client \in {"open", "closed"}
  /\ life.sync = "failed" => life.pc \in {"serving", "disconnect", "closed"}
  /\ life.pc = "aborted" => ~life.started /\ life.sync = "none"
  /\ life.client = "closed" => sched_state = "stopped"
\* a job body is started by the step
BodyStarts == bodies' \ bodies # {}
\* C30: the Secondary Store is connected before the scheduler is started and
\* before the initial sync runs; a failed initial sync does not abort the
\* startup; at shutdown the scheduler is stopped before the connection is
\* closed, so that no job body starts once it is closed.
C30_ConnectedWhileScheduling ==
  [][LifeOrder' /\ (BodyStarts => life.client = "open" /\ life'.client = "open")]_vars

\* the application shut down after a startup whose initial sync failed, and a
\* job body was started while it served
C30_Witness ==
  /\ life.pc = "closed" /\ life.started /\ life.sync = "failed"
  /\ hist.done_day["daily_sync"] >= 0
====
